---- MODULE Spec2Model ----
(***************************************************************************)
(* A model of fdu: the parallel directory scanner (fdu.scan_path with its  *)
(* workers running fdu._process_dir) and the tree builder / aggregator     *)
(* (fdu.build_tree, orm.Directory.query_totals, orm.Directory._sum_subdirs,*)
(* util.walk_tree, util.agg_none).                                         *)
(*                                                                         *)
(* Conventions                                                             *)
(*  - A path is the sequence of its components; the scan root is RootPath. *)
(*    A name (a string) is a sequence of components too: path.name is the  *)
(*    one-element sequence of the last component, str(root_path) is the    *)
(*    whole sequence, and "parent.path / name" is concatenation.           *)
(*  - An optional value (Python's None or a value) is a sequence of length *)
(*    at most one: None is <<>> and the value v is <<v>>.                  *)
(*  - A table of the store is the sequence of its rows in insertion order; *)
(*    the id of a Directory row is its index (autoincrement from 1).       *)
(***************************************************************************)
EXTENDS Integers, Sequences, FiniteSets, TLC

\* ------------------------------------------------------------------ bounds
\* Largest number of directories the scanned tree may contain.
MaxDirs == 3
\* Largest worker count given to scan_path.
MaxWorkers == 2
\* Largest number of Directory records given to build_tree directly.
MaxRecs == 3

\* --------------------------------------------------------------- constants
\* allocated_size is st_blocks * 512.
BlockSize == 512

None == <<>>
Some(v) == <<v>>

\* ---------------------------------------------------------- the file system
\* The scan root, a one-component path.
RootPath == <<0>>
\* Names a subdirectory entry can have.
Names == {1, 2}
\* Orders in which os.scandir may yield the subdirectories of a directory.
SubdirLists == {<<>>, <<1>>, <<2>>, <<1, 2>>, <<2, 1>>}
\* Names a regular file entry can have.
FileNames == {"f", "g"}
\* The os.stat_result of a file entry, by its name.
FileStat(n) ==
    IF n = "f"
    THEN [st_size |-> 1, st_blocks |-> 1, st_mtime |-> 3, st_nlink |-> 1,
          st_uid |-> 100, st_gid |-> 10]
    ELSE [st_size |-> 2, st_blocks |-> 0, st_mtime |-> 5, st_nlink |-> 2,
          st_uid |-> 200, st_gid |-> 10]
\* st_mtime of a directory, by its path.
DirMtime(path) == Len(path) + 1

\* The exclusion patterns: ".*/2" (any path whose last component is 2) and
\* the pattern that is the root path itself.
Patterns == {"last2", "root"}
\* The pattern lists a caller may give: none, or both patterns.
PatternLists == {{}, Patterns}
\* re.fullmatch(pattern, str(path)) is not None
Matches(pattern, path) ==
    IF pattern = "last2"
    THEN Len(path) >= 2 /\ path[Len(path)] = 2
    ELSE path = RootPath

\* A variant of exclude_subdir that asks for every pattern to match.
exclude_subdir_all(path, patterns) ==
    \A pattern \in patterns : Matches(pattern, path)

exclude_subdir(path, patterns) == \E pattern \in patterns : Matches(pattern, path)

\* pathlib: path.parent and path.name
ParentPath(path) == SubSeq(path, 1, Len(path) - 1)
PathName(path) == <<path[Len(path)]>>
\* path.is_relative_to(base)
IsRelativeTo(path, base) ==
    Len(path) >= Len(base) /\ SubSeq(path, 1, Len(base)) = base

\* ------------------------------------------------------------------- state
VARIABLES
    workers,           \* scan_path's worker count
    exclude_patterns,  \* scan_path's exclusion patterns
    pc,                \* where the coordinator (scan_path) is
    futures,           \* every future the executor was given, in submission order
    waiting,           \* scan_path's waiting set (indices into futures)
    done,              \* scan_path's done set, as returned by the last wait
    processed,         \* the futures of done the for loop has been through
    store,             \* the committed content of the database
    txn,               \* the content as seen inside the open transaction
    dir_cache,         \* fdu._dir_cache: path -> Directory id
    uid_cache,         \* fdu._uid_cache: the uids that have a User object
    gid_cache,         \* fdu._gid_cache
    count,             \* scan_path's count
    user,              \* cli.query's user filter (an optional uid)
    recs,              \* the Directory records given to build_tree
    tree,              \* what build_tree made of them, and the later calls of it
    extract,           \* the last call of extract_subtree and its outcome
    walkArgs           \* the order and maxdepth of the caller's walk_tree

scanVars == <<workers, exclude_patterns, pc, futures, waiting, done, processed,
              store, txn, dir_cache, uid_cache, gid_cache, count>>
otherScanVars == <<workers, exclude_patterns, futures, waiting, done,
                     processed, store, txn, dir_cache, uid_cache, gid_cache, count>>
treeVars == <<user, recs, tree, extract, walkArgs>>
vars == <<scanVars, treeVars>>

EmptyStore == [dirs |-> <<>>, files |-> {}, users |-> <<>>, groups |-> <<>>,
               meta |-> <<>>]

\* No tree has been built.
NoTree == [error |-> "not built", missing |-> None, root |-> 0, nodes |-> <<>>,
           calls |-> <<>>, tested |-> <<>>]

\* extract_subtree has not been called; walk_tree has not been called.
NoExtract == [path |-> <<>>, error |-> "not called", cause |-> None, node |-> 0]
NoWalk == [order |-> "none", maxdepth |-> None, columns |-> <<>>, error |-> "",
           code |-> None]

\* A future that has no result yet.
NoResult == [kind |-> "none", mtime |-> 0, files |-> {}, subdirs |-> <<>>]

\* The directories the workers have found so far: the root and every entry
\* of a successful listing.
RECURSIVE SumSubdirs(_, _)
SumSubdirs(fs, i) ==
    IF i = 0 THEN 0 ELSE Len(fs[i].result.subdirs) + SumSubdirs(fs, i - 1)
Discovered == 1 + SumSubdirs(futures, Len(futures))

Init ==
    /\ workers \in 1..MaxWorkers
    /\ exclude_patterns \in PatternLists
    /\ pc = "start"
    /\ futures = <<>>
    /\ waiting = {}
    /\ done = {}
    /\ processed = {}
    /\ store = EmptyStore
    /\ txn = EmptyStore
    /\ dir_cache = <<>>
    /\ uid_cache = {}
    /\ gid_cache = {}
    /\ count = 0
    /\ user = None
    /\ recs = <<>>
    /\ tree = NoTree
    /\ extract = NoExtract
    /\ walkArgs = NoWalk

\* ---------------------------------------------------------------- registry
\* The default of a TimestampField: the time the row is created, here a time
\* later than every st_mtime of the file system.
Now == 9

\* Directory.create(name, parent): a row with the default mtime and
\* scan_status.
NewDir(name, parent) ==
    [name |-> name, parent |-> parent, mtime |-> Now, scan_status |-> "NOT_SCANNED"]

\* A variant of _dir_from_path that creates every record without a parent.
_dir_from_path_orphan(path, base, s) ==
    IF path \in DOMAIN s.cache
    THEN [dirs |-> s.dirs, cache |-> s.cache, id |-> s.cache[path]]
    ELSE IF IsRelativeTo(path, base)
    THEN LET dirs == Append(s.dirs, NewDir(path, None))
         IN [dirs |-> dirs, cache |-> (path :> Len(dirs)) @@ s.cache,
             id |-> Len(dirs)]
    ELSE [dirs |-> s.dirs, cache |-> s.cache, id |-> 0]

\* _dir_from_path(path, base) on the state s = [dirs, cache]: the state after
\* the call, with the id of the returned Directory in field id (0 when the
\* call raises ValueError).
RECURSIVE _dir_from_path(_, _, _)
_dir_from_path(path, base, s) ==
    IF path \in DOMAIN s.cache
    THEN [dirs |-> s.dirs, cache |-> s.cache, id |-> s.cache[path]]
    ELSE IF path = base
    THEN LET dirs == Append(s.dirs, NewDir(path, None))
         IN [dirs |-> dirs, cache |-> (path :> Len(dirs)) @@ s.cache,
             id |-> Len(dirs)]
    ELSE IF IsRelativeTo(path, base)
    THEN LET p == _dir_from_path(ParentPath(path), base, s)
             dirs == Append(p.dirs, NewDir(PathName(path), Some(p.id)))
         IN IF p.id = 0
            THEN p
            ELSE [dirs |-> dirs, cache |-> (path :> Len(dirs)) @@ p.cache,
                  id |-> Len(dirs)]
    ELSE [dirs |-> s.dirs, cache |-> s.cache, id |-> 0]

\* A variant of _user_from_uid that does not remember the record it created.
_user_from_uid_forgets(uid, users, cache) ==
    IF uid \notin cache
    THEN [rows |-> Append(users, uid), cache |-> cache]
    ELSE [rows |-> users, cache |-> cache]

\* _user_from_uid / _group_from_gid: the table and the cache after the call.
_user_from_uid(uid, users, cache) ==
    IF uid \notin cache
    THEN [rows |-> Append(users, uid), cache |-> cache \cup {uid}]
    ELSE [rows |-> users, cache |-> cache]

_group_from_gid(gid, groups, cache) ==
    IF gid \notin cache
    THEN [rows |-> Append(groups, gid), cache |-> cache \cup {gid}]
    ELSE [rows |-> groups, cache |-> cache]

\* ----------------------------------------------------------------- workers
Running == {f \in 1..Len(futures) : futures[f].state = "RUNNING"}
Pending == {f \in 1..Len(futures) : futures[f].state = "PENDING"}
Finished == {f \in 1..Len(futures) : futures[f].state = "FINISHED"}

\* What _process_dir(path) can return or raise. A listing is bounded by the
\* number of directories the tree may still contain.
Results ==
    {[kind |-> k, mtime |-> 0, files |-> {}, subdirs |-> <<>>] :
        k \in {"perm", "ioerr"}}
    \cup
    {[kind |-> "ok", mtime |-> 0, files |-> fl, subdirs |-> sl] :
        fl \in SUBSET FileNames,
        sl \in {l \in SubdirLists : Discovered + Len(l) <= MaxDirs}}

\* A variant of WorkerStart whose pool has one worker less than asked for.
WorkerStartStarved ==
    /\ pc \in {"wait", "drain", "aborting"}
    /\ Pending # {}
    /\ Cardinality(Running) < workers - 1
    /\ LET f == CHOOSE g \in Pending : \A h \in Pending : g <= h
       IN futures' = [futures EXCEPT ![f].state = "RUNNING"]
    /\ UNCHANGED <<workers, exclude_patterns, pc, waiting, done, processed,
                   store, txn, dir_cache, uid_cache, gid_cache, count>>
    /\ UNCHANGED treeVars

\* A variant of WorkerStart for an executor that starts a thread for every
\* work item.
WorkerStartUnbounded ==
    /\ pc \in {"wait", "drain", "aborting"}
    /\ Pending # {}
    /\ LET f == CHOOSE g \in Pending : \A h \in Pending : g <= h
       IN futures' = [futures EXCEPT ![f].state = "RUNNING"]
    /\ UNCHANGED <<workers, exclude_patterns, pc, waiting, done, processed,
                   store, txn, dir_cache, uid_cache, gid_cache, count>>
    /\ UNCHANGED treeVars

\* The executor hands the oldest pending work item to a free worker.
WorkerStart ==
    /\ pc \in {"wait", "drain", "aborting"}
    /\ Pending # {}
    /\ Cardinality(Running) < workers
    /\ LET f == CHOOSE g \in Pending : \A h \in Pending : g <= h
       IN futures' = [futures EXCEPT ![f].state = "RUNNING"]
    /\ UNCHANGED <<workers, exclude_patterns, pc, waiting, done, processed,
                   store, txn, dir_cache, uid_cache, gid_cache, count>>
    /\ UNCHANGED treeVars

\* A worker finishes _process_dir(path): it returns (path, None) on a
\* PermissionError, (path, dirstat, files, subdirs) on success, and raises on
\* any other error.
WorkerFinish ==
    /\ pc \in {"wait", "drain", "aborting"}
    /\ \E f \in Running, r \in Results :
        futures' = [futures EXCEPT
            ![f].state = "FINISHED",
            ![f].result = IF r.kind = "ok"
                          THEN [r EXCEPT !.mtime = DirMtime(futures[f].path)]
                          ELSE r]
    /\ UNCHANGED <<workers, exclude_patterns, pc, waiting, done, processed,
                   store, txn, dir_cache, uid_cache, gid_cache, count>>
    /\ UNCHANGED treeVars

\* -------------------------------------------------------------- coordinator
NewFuture(path) == [path |-> path, state |-> "PENDING", result |-> NoResult]

\* A variant of Start that applies the exclusion patterns to the root: a
\* matching root gets its record and no task.
StartChecksRoot ==
    /\ pc = "start"
    /\ store' = [store EXCEPT
                    !.meta = store.meta \o <<"path", "schema">>,
                    !.dirs = IF exclude_subdir(RootPath, exclude_patterns)
                             THEN <<[NewDir(RootPath, None) EXCEPT
                                        !.scan_status = "SKIPPED_EXCLUDE"]>>
                             ELSE store.dirs]
    /\ txn' = store'
    /\ dir_cache' = IF exclude_subdir(RootPath, exclude_patterns)
                    THEN (RootPath :> 1) ELSE dir_cache
    /\ futures' = IF exclude_subdir(RootPath, exclude_patterns)
                  THEN <<>> ELSE <<NewFuture(RootPath)>>
    /\ waiting' = 1..Len(futures')
    /\ pc' = "wait"
    /\ UNCHANGED <<workers, exclude_patterns, done, processed, uid_cache,
                   gid_cache, count>>
    /\ UNCHANGED treeVars

\* scan_path up to the first wait: the first two Metadata rows (written
\* outside any transaction) and the root task.
Start ==
    /\ pc = "start"
    /\ store' = [store EXCEPT !.meta = store.meta \o <<"path", "schema">>]
    /\ txn' = store'
    /\ futures' = <<NewFuture(RootPath)>>
    /\ waiting' = {1}
    /\ pc' = "wait"
    /\ UNCHANGED <<workers, exclude_patterns, done, processed, dir_cache,
                   uid_cache, gid_cache, count>>
    /\ UNCHANGED treeVars

\* A variant of Wait that leaves the drained futures in waiting.
WaitKeepsDone ==
    /\ pc = "wait"
    /\ waiting # {}
    /\ waiting \cap Finished # {}
    /\ done' = waiting \cap Finished
    /\ waiting' = waiting
    /\ processed' = {}
    /\ txn' = store
    /\ pc' = "drain"
    /\ UNCHANGED <<workers, exclude_patterns, futures, store, dir_cache,
                   uid_cache, gid_cache, count>>
    /\ UNCHANGED treeVars

\* A variant of Wait that returns when all of waiting has finished
\* (ALL_COMPLETED).
WaitForAll ==
    /\ pc = "wait"
    /\ waiting # {}
    /\ waiting \subseteq Finished
    /\ done' = waiting
    /\ waiting' = {}
    /\ processed' = {}
    /\ txn' = store
    /\ pc' = "drain"
    /\ UNCHANGED <<workers, exclude_patterns, futures, store, dir_cache,
                   uid_cache, gid_cache, count>>
    /\ UNCHANGED treeVars

\* A variant of Wait that takes one finished future as the batch and drops
\* the others that have finished with it.
WaitDropsBatch ==
    /\ pc = "wait"
    /\ waiting # {}
    /\ waiting \cap Finished # {}
    /\ done' = {CHOOSE f \in waiting \cap Finished :
                    \A g \in waiting \cap Finished : f <= g}
    /\ waiting' = waiting \ Finished
    /\ processed' = {}
    /\ txn' = store
    /\ pc' = "drain"
    /\ UNCHANGED <<workers, exclude_patterns, futures, store, dir_cache,
                   uid_cache, gid_cache, count>>
    /\ UNCHANGED treeVars

\* concurrent.futures.wait(waiting, FIRST_COMPLETED) returns: done is every
\* future of waiting that has finished, waiting the rest; database.atomic()
\* opens the transaction of the batch.
Wait ==
    /\ pc = "wait"
    /\ waiting # {}
    /\ waiting \cap Finished # {}
    /\ done' = waiting \cap Finished
    /\ waiting' = waiting \ Finished
    /\ processed' = {}
    /\ txn' = store
    /\ pc' = "drain"
    /\ UNCHANGED <<workers, exclude_patterns, futures, store, dir_cache,
                   uid_cache, gid_cache, count>>
    /\ UNCHANGED treeVars

\* The File rows of one directory (files_to_insert), for its id.
FileRows(files, d) ==
    {[name |-> n, directory |-> d,
      apparent_size |-> FileStat(n).st_size,
      allocated_size |-> FileStat(n).st_blocks * BlockSize,
      mtime |-> FileStat(n).st_mtime,
      num_links |-> FileStat(n).st_nlink,
      user |-> FileStat(n).st_uid,
      group |-> FileStat(n).st_gid] : n \in files}

\* One iteration of the loop over files (lines 158-169): the owner lookups.
OwnerStep(n, s) ==
    LET u == _user_from_uid(FileStat(n).st_uid, s.users, s.uid_cache)
        g == _group_from_gid(FileStat(n).st_gid, s.groups, s.gid_cache)
    IN [s EXCEPT !.users = u.rows, !.uid_cache = u.cache,
                 !.groups = g.rows, !.gid_cache = g.cache]

\* The loop over files: the users, groups and caches after it.
RECURSIVE Owners(_, _)
Owners(files, s) ==
    IF files = {} THEN s
    ELSE LET n == IF "f" \in files THEN "f" ELSE CHOOSE m \in files : TRUE
         IN CHOOSE r \in {Owners(files \ {n}, t) : t \in {OwnerStep(n, s)}} : TRUE

\* A variant of SubdirStep that also creates the record of a subdirectory it
\* submits, which then waits for its status until the task's result.
SubdirStepEager(sd, path, s) ==
    LET r == _dir_from_path(sd, path, [dirs |-> s.dirs, cache |-> s.dir_cache])
    IN IF exclude_subdir(sd, exclude_patterns)
       THEN [s EXCEPT !.dirs = [r.dirs EXCEPT
                                   ![r.id].scan_status = "SKIPPED_EXCLUDE"],
                      !.dir_cache = r.cache]
       ELSE [s EXCEPT !.dirs = r.dirs,
                      !.dir_cache = r.cache,
                      !.futures = Append(s.futures, NewFuture(sd)),
                      !.waiting = s.waiting \cup {Len(s.futures) + 1}]

\* One iteration of the loop over subdirs (lines 174-181): an excluded
\* subdirectory gets its record, any other one a task.
SubdirStep(sd, path, s) ==
    LET r == _dir_from_path(sd, path, [dirs |-> s.dirs, cache |-> s.dir_cache])
    IN IF exclude_subdir(sd, exclude_patterns)
       THEN [s EXCEPT !.dirs = [r.dirs EXCEPT
                                   ![r.id].scan_status = "SKIPPED_EXCLUDE"],
                      !.dir_cache = r.cache]
       ELSE [s EXCEPT !.futures = Append(s.futures, NewFuture(sd)),
                      !.waiting = s.waiting \cup {Len(s.futures) + 1}]

\* The loop over subdirs of the directory at path.
RECURSIVE Subdirs(_, _, _)
Subdirs(subdirs, path, s) ==
    IF subdirs = <<>> THEN s
    ELSE CHOOSE r \in {Subdirs(Tail(subdirs), path, t) :
                          t \in {SubdirStep(path \o <<Head(subdirs)>>, path, s)}} : TRUE

\* The directory's own record (lines 144-155): d is resolved through the
\* registry, then its status (and on success its mtime) is saved.
SaveDir(f, s) ==
    LET r == s.futures[f].result
        d == _dir_from_path(s.futures[f].path, RootPath,
                            [dirs |-> s.dirs, cache |-> s.dir_cache])
    IN IF r.kind = "perm"
       THEN [s EXCEPT !.dirs = [d.dirs EXCEPT
                                   ![d.id].scan_status = "SKIPPED_PERMISSION"],
                      !.dir_cache = d.cache]
       ELSE [s EXCEPT !.dirs = [d.dirs EXCEPT
                                   ![d.id].scan_status = "SUCCESSFUL",
                                   ![d.id].mtime = r.mtime],
                      !.dir_cache = d.cache]

\* The File rows of the directory are inserted (lines 157-172).
InsertFiles(f, s) ==
    LET t == Owners(s.futures[f].result.files, s)
    IN [t EXCEPT !.files = t.files \cup
            FileRows(s.futures[f].result.files, s.dir_cache[s.futures[f].path])]

\* The body of "for f in done" for a future whose result() returns (lines
\* 141-183), on the state s of everything the body reads and writes. A
\* denied directory stops at "continue" after its own record.
\* (Each stage is written "CHOOSE r \in {G(t) : t \in {stage}} : TRUE", which
\* is G(stage) with the stage evaluated once.)
Body(f, s) ==
    IF s.futures[f].result.kind = "perm"
    THEN SaveDir(f, s)
    ELSE CHOOSE r \in
            {[s3 EXCEPT !.count = s3.count + 1] :
                s3 \in {Subdirs(s2.futures[f].result.subdirs, s2.futures[f].path, s2) :
                    s2 \in {InsertFiles(f, s1) : s1 \in {SaveDir(f, s)}}}} : TRUE

\* A variant of ResultRaises without the check for a denied directory: the
\* unpacking of its result raises too.
ResultRaisesDenied(f) == futures[f].result.kind \in {"ioerr", "perm"}

\* f.result() re-raises what the worker raised.
ResultRaises(f) == futures[f].result.kind = "ioerr"

\* A variant of Uncommitted without a transaction: every write is committed
\* at once.
UncommittedVisible(t) == t

\* The committed content while the transaction opened by database.atomic()
\* holds the content t: the writes of the transaction stay private.
Uncommitted(t) == store

\* A variant of RolledBack that commits what the batch wrote so far.
RolledBackKept(t) == t

\* The committed content once an exception has left database.atomic() with
\* the transaction holding the content t: the transaction is rolled back.
RolledBack(t) == store

\* One iteration of "for f in done" inside the transaction. An exception of
\* f.result() leaves database.atomic() and then the executor's with block.
ProcessOne(f) ==
    /\ pc = "drain"
    /\ f \in done \ processed
    /\ IF ResultRaises(f)
       THEN /\ store' = RolledBack(txn)
            /\ txn' = store'
            /\ pc' = "aborting"
            /\ UNCHANGED <<futures, waiting, processed, dir_cache, uid_cache,
                           gid_cache, count>>
       ELSE \E s \in {Body(f, [dirs |-> txn.dirs, files |-> txn.files,
                              users |-> txn.users, groups |-> txn.groups,
                              dir_cache |-> dir_cache, uid_cache |-> uid_cache,
                              gid_cache |-> gid_cache, futures |-> futures,
                              waiting |-> waiting, count |-> count])} :
               /\ txn' = [txn EXCEPT !.dirs = s.dirs, !.files = s.files,
                                     !.users = s.users, !.groups = s.groups]
               /\ store' = Uncommitted(txn')
               /\ dir_cache' = s.dir_cache
               /\ uid_cache' = s.uid_cache
               /\ gid_cache' = s.gid_cache
               /\ futures' = s.futures
               /\ waiting' = s.waiting
               /\ count' = s.count
               /\ processed' = processed \cup {f}
               /\ pc' = pc
    /\ UNCHANGED <<workers, exclude_patterns, done>>
    /\ UNCHANGED treeVars

\* The for loop is over: database.atomic() commits the batch.
Commit ==
    /\ pc = "drain"
    /\ processed = done
    /\ store' = txn
    /\ pc' = "wait"
    /\ UNCHANGED <<workers, exclude_patterns, futures, waiting, done, processed,
                   txn, dir_cache, uid_cache, gid_cache, count>>
    /\ UNCHANGED treeVars

\* A variant of Return that leaves the loop as soon as no future of waiting
\* has finished.
ReturnEarly ==
    /\ pc = "wait"
    /\ waiting \cap Finished = {}
    /\ store' = [store EXCEPT !.meta = store.meta \o <<"scrape_length", "scrape_time">>]
    /\ txn' = store'
    /\ pc' = "returned"
    /\ UNCHANGED <<workers, exclude_patterns, futures, waiting, done, processed,
                   dir_cache, uid_cache, gid_cache, count>>
    /\ UNCHANGED treeVars

\* The while loop ends on an empty waiting set; the executor shuts down and
\* the last two Metadata rows are written.
Return ==
    /\ pc = "wait"
    /\ waiting = {}
    /\ store' = [store EXCEPT !.meta = store.meta \o <<"scrape_length", "scrape_time">>]
    /\ txn' = store'
    /\ pc' = "returned"
    /\ UNCHANGED <<workers, exclude_patterns, futures, waiting, done, processed,
                   dir_cache, uid_cache, gid_cache, count>>
    /\ UNCHANGED treeVars

\* A variant of Raise that writes the last two Metadata rows on the way out.
RaiseWritesMeta ==
    /\ pc = "aborting"
    /\ Pending = {}
    /\ Running = {}
    /\ store' = [store EXCEPT !.meta = store.meta \o <<"scrape_length", "scrape_time">>]
    /\ txn' = store'
    /\ pc' = "raised"
    /\ UNCHANGED <<workers, exclude_patterns, futures, waiting, done, processed,
                   dir_cache, uid_cache, gid_cache, count>>
    /\ UNCHANGED treeVars

\* The executor's with block is left on an exception: shutdown(wait=True)
\* returns once every submitted task has run, and scan_path raises.
Raise ==
    /\ pc = "aborting"
    /\ Pending = {}
    /\ Running = {}
    /\ pc' = "raised"
    /\ UNCHANGED <<workers, exclude_patterns, futures, waiting, done, processed,
                   store, txn, dir_cache, uid_cache, gid_cache, count>>
    /\ UNCHANGED treeVars

\* A later invocation in the same process, on a store of its own
\* (cli.scan: database.init, create_tables, then scan_path up to its first
\* wait). count is a local and starts again; _dir_cache, _uid_cache and
\* _gid_cache are module globals that no line of scan_path resets. The model
\* follows the later invocation up to this point.
Rescan ==
    /\ pc = "returned"
    /\ store' = [EmptyStore EXCEPT !.meta = <<"path", "schema">>]
    /\ txn' = store'
    /\ futures' = <<NewFuture(RootPath)>>
    /\ waiting' = {1}
    /\ done' = {}
    /\ processed' = {}
    /\ count' = 0
    /\ pc' = "rescanned"
    /\ UNCHANGED <<workers, exclude_patterns, dir_cache, uid_cache, gid_cache>>
    /\ UNCHANGED treeVars

\* ------------------------------------------------------------ the totals
\* The aggregates of a Directory: file_count_dir is dir.file_count,
\* allocated_size_tree is tree.allocated_size, and so on.
Fields == {"file_count", "allocated_size", "apparent_size", "mtime"}
\* The class attributes of Directory: every aggregate is None.
NoAggregates == [k \in Fields |-> None]

\* Python's sum and max of a non-empty list of numbers.
RECURSIVE SeqSum(_)
SeqSum(l) == IF l = <<>> THEN 0 ELSE Head(l) + SeqSum(Tail(l))
SeqMax(l) == CHOOSE m \in {l[i] : i \in 1..Len(l)} : \A i \in 1..Len(l) : l[i] <= m

\* SQL's aggregates over the rows of a group: NULL over no rows.
RECURSIVE SumColumn(_, _)
SumColumn(rows, k) ==
    IF rows = {} THEN 0
    ELSE LET r == CHOOSE x \in rows : TRUE
         IN r[k] + SumColumn(rows \ {r}, k)
SqlSum(rows, k) == IF rows = {} THEN None ELSE Some(SumColumn(rows, k))
SqlMax(rows, k) ==
    IF rows = {} THEN None
    ELSE Some(CHOOSE m \in {r[k] : r \in rows} : \A r \in rows : r[k] <= m)
\* SQLite's max(X, Y) of two scalars: NULL when either is NULL.
ScalarMax(x, y) ==
    IF x = None \/ y = None THEN None
    ELSE IF x[1] >= y[1] THEN x ELSE y
\* IfNull(x, v)
IfNull(x, v) == IF x = None THEN v ELSE x[1]

\* The File rows the LEFT OUTER JOIN pairs with Directory i: those of the
\* directory, and with a user filter only those of that user.
Joined(st, i, u) ==
    {r \in st.files : r.directory = i /\ (u = None \/ r.user = u[1])}

\* The record the totals query selects for Directory i: the row's columns
\* and the aggregates over the File rows joined to it.
TotalsRow(st, i, u) ==
    [id |-> i,
     name |-> st.dirs[i].name,
     parent_id |-> st.dirs[i].parent,
     mtime |-> st.dirs[i].mtime,
     scan_status |-> st.dirs[i].scan_status,
     dir |-> [file_count |-> Some(Cardinality(Joined(st, i, u))),
              allocated_size |->
                  Some(IfNull(SqlSum(Joined(st, i, u), "allocated_size"), 0)),
              apparent_size |->
                  Some(IfNull(SqlSum(Joined(st, i, u), "apparent_size"), 0)),
              mtime |->
                  Some(IfNull(ScalarMax(SqlMax(Joined(st, i, u), "mtime"),
                                        Some(st.dirs[i].mtime)), 0))]]

\* A variant of query_totals with an inner join: a Directory without a
\* joined File row is not selected.
query_totals_inner(st, u) ==
    SelectSeq([i \in 1..Len(st.dirs) |-> TotalsRow(st, i, u)],
              LAMBDA r : Joined(st, r.id, u) # {})

\* Directory.query_totals(user) evaluated on the store st: one record per
\* Directory row (the join is a LEFT OUTER JOIN, grouped by Directory).
query_totals(st, u) == [i \in 1..Len(st.dirs) |-> TotalsRow(st, i, u)]

\* ------------------------------------------------------------------ util.py
\* _skip(xl): the elements that are not None.
_skip(xl) == SelectSeq(xl, LAMBDA x : x # None)

\* A variant of agg_none that gives 0 for a list without values.
agg_none_zero(xl, f) ==
    IF Len(_skip(xl)) = 0
    THEN Some(0)
    ELSE LET l == [i \in 1..Len(_skip(xl)) |-> _skip(xl)[i][1]]
         IN Some(IF f = "sum" THEN SeqSum(l) ELSE SeqMax(l))

\* agg_none(xl, f) for f one of sum and max.
agg_none(xl, f) ==
    IF Len(_skip(xl)) = 0
    THEN None
    ELSE LET l == [i \in 1..Len(_skip(xl)) |-> _skip(xl)[i][1]]
         IN Some(IF f = "sum" THEN SeqSum(l) ELSE SeqMax(l))

\* The order of names (strings), component by component.
NameLess(a, b) ==
    \E k \in 1..(Len(a) + 1) :
        /\ \A j \in 1..(k - 1) : j <= Len(b) /\ a[j] = b[j]
        /\ k <= Len(b)
        /\ (k > Len(a) \/ a[k] < b[k])

\* sorted(names)
RECURSIVE SortedNames(_)
SortedNames(S) ==
    IF S = {} THEN <<>>
    ELSE LET m == CHOOSE x \in S : \A y \in S : x = y \/ NameLess(x, y)
         IN <<m>> \o SortedNames(S \ {m})

\* A variant of children that lists the subdirectories in the order of
\* their ids.
children_byid(nodes, d) ==
    LET S == {nodes[d].subdirectories[n] : n \in DOMAIN nodes[d].subdirectories}
    IN CHOOSE q \in [1..Cardinality(S) -> S] :
          \A i, j \in 1..Cardinality(S) : i < j => q[i] < q[j]

\* Directory.children: the subdirectories in the order of their names.
children(nodes, d) ==
    LET names == SortedNames(DOMAIN nodes[d].subdirectories)
    IN [i \in 1..Len(names) |-> nodes[d].subdirectories[names[i]]]

\* Directory._sum_subdirs on node d.
_sum_subdirs(nodes, d) ==
    LET ch == children(nodes, d)
        tree_dir == nodes[d].dir
        dirs(k) == <<tree_dir[k]>> \o [i \in 1..Len(ch) |-> nodes[ch[i]].tree[k]]
    IN [nodes EXCEPT ![d].tree =
           [k \in Fields |-> agg_none(dirs(k), IF k = "mtime" THEN "max" ELSE "sum")]]

\* Python's truth value of an optional integer.
Truthy(x) == x # None /\ x[1] # 0

\* build_tree's _add_paths on node d of the tree t.
_add_paths(t, d) ==
    IF Truthy(t.nodes[d].parent_id)
    THEN IF t.nodes[t.nodes[d].parent_id[1]].path = None
         THEN [t EXCEPT !.error = "AttributeError"]
         ELSE [t EXCEPT !.nodes[d].path =
                  Some(t.nodes[t.nodes[d].parent_id[1]].path[1] \o t.nodes[d].name)]
    ELSE [t EXCEPT !.nodes[d].path = Some(t.nodes[d].name)]

\* What _filter(d) hands to the predicate: each child of d, here with the
\* children the child has at that time.
Tested(nodes, d) ==
    {<<nodes[d].subdirectories[n],
       {nodes[nodes[d].subdirectories[n]].subdirectories[m] :
           m \in DOMAIN nodes[nodes[d].subdirectories[n]].subdirectories}>> :
        n \in DOMAIN nodes[d].subdirectories}

\* A variant of _filter whose predicate reads the directory's own file
\* count.
_filter_own(t, d) ==
    LET subs == t.nodes[d].subdirectories
    IN IF \E n \in DOMAIN subs : t.nodes[subs[n]].dir.file_count = None
       THEN [t EXCEPT !.error = "TypeError"]
       ELSE [t EXCEPT !.nodes[d].subdirectories =
                [n \in {m \in DOMAIN subs :
                           t.nodes[subs[m]].dir.file_count[1] > 0} |-> subs[n]],
                      !.tested = Append(@, <<d, Tested(t.nodes, d)>>)]

\* A variant of _filter that also replaces the subtree aggregates of d by
\* its per-directory aggregates.
_filter_resets(t, d) ==
    LET subs == t.nodes[d].subdirectories
    IN IF \E n \in DOMAIN subs : t.nodes[subs[n]].tree.file_count = None
       THEN [t EXCEPT !.error = "TypeError"]
       ELSE [t EXCEPT !.nodes[d].subdirectories =
                [n \in {m \in DOMAIN subs :
                           t.nodes[subs[m]].tree.file_count[1] > 0} |-> subs[n]],
                      !.nodes[d].tree = t.nodes[d].dir,
                      !.tested = Append(@, <<d, Tested(t.nodes, d)>>)]

\* filter_tree's _filter on node d for cli.query's predicate
\* d.file_count_tree > 0: the children that satisfy it are kept; comparing
\* None with 0 raises TypeError. tested records the evaluations of the
\* predicate, one entry per call of _filter.
_filter(t, d) ==
    LET subs == t.nodes[d].subdirectories
    IN IF \E n \in DOMAIN subs : t.nodes[subs[n]].tree.file_count = None
       THEN [t EXCEPT !.error = "TypeError"]
       ELSE [t EXCEPT !.nodes[d].subdirectories =
                [n \in {m \in DOMAIN subs :
                           t.nodes[subs[m]].tree.file_count[1] > 0} |-> subs[n]],
                      !.tested = Append(@, <<d, Tested(t.nodes, d)>>)]

\* The callback f(d, depth) of a walk, by its name: build_tree's _add_paths
\* and _sum_subdirs, filter_tree's _filter, and the report's _print, which
\* changes nothing in the tree. calls records the invocations.
Callback(f, t, d, depth) ==
    IF f = "_add_paths" THEN _add_paths([t EXCEPT !.calls = Append(@, <<d, depth>>)], d)
    ELSE IF f = "_sum_subdirs"
    THEN [t EXCEPT !.nodes = _sum_subdirs(t.nodes, d),
                   !.calls = Append(@, <<d, depth>>)]
    ELSE IF f = "_filter" THEN _filter([t EXCEPT !.calls = Append(@, <<d, depth>>)], d)
    ELSE [t EXCEPT !.calls = Append(@, <<d, depth>>)]

\* A variant of the loop that, in post order, does not put a node with
\* children back on the stack behind them.
RECURSIVE walk_loop_norevisit(_, _, _, _, _, _)
walk_loop_norevisit(stack, depth, t, f, maxdepth, order) ==
    IF stack = <<>> \/ t.error # ""
    THEN t
    ELSE LET last_depth == depth
             d == Head(stack)[1]
             dep == Head(stack)[2]
             ch == children(t.nodes, d)
             chs == [i \in 1..Len(ch) |-> <<ch[i], dep + 1>>]
         IN IF Truthy(maxdepth) /\ dep >= maxdepth[1]
            THEN walk_loop_norevisit(Tail(stack), dep, t, f, maxdepth, order)
            ELSE IF order = "post" /\ Len(ch) > 0 /\ dep >= last_depth
            THEN walk_loop_norevisit(chs \o Tail(stack), dep, t, f, maxdepth, order)
            ELSE walk_loop_norevisit(IF order = "pre" THEN chs \o Tail(stack)
                                     ELSE IF order = "bfs" THEN Tail(stack) \o chs
                                     ELSE Tail(stack),
                                     dep, Callback(f, t, d, dep), f, maxdepth, order)

\* A variant of the loop that, in post order, calls a node with children
\* when it is popped the first time, as in pre order.
RECURSIVE walk_loop_postaspre(_, _, _, _, _, _)
walk_loop_postaspre(stack, depth, t, f, maxdepth, order) ==
    IF stack = <<>> \/ t.error # ""
    THEN t
    ELSE LET d == Head(stack)[1]
             dep == Head(stack)[2]
             ch == children(t.nodes, d)
             chs == [i \in 1..Len(ch) |-> <<ch[i], dep + 1>>]
         IN IF Truthy(maxdepth) /\ dep >= maxdepth[1]
            THEN walk_loop_postaspre(Tail(stack), dep, t, f, maxdepth, order)
            ELSE walk_loop_postaspre(IF order = "bfs" THEN Tail(stack) \o chs
                                     ELSE chs \o Tail(stack),
                                     dep, Callback(f, t, d, dep), f, maxdepth, order)

\* The while loop of walk_tree: stack holds (node, depth) pairs, depth is the
\* depth of the pair popped last.
RECURSIVE walk_loop(_, _, _, _, _, _)
walk_loop(stack, depth, t, f, maxdepth, order) ==
    IF stack = <<>> \/ t.error # ""
    THEN t
    ELSE LET last_depth == depth
             d == Head(stack)[1]
             dep == Head(stack)[2]
             ch == children(t.nodes, d)
             chs == [i \in 1..Len(ch) |-> <<ch[i], dep + 1>>]
         IN IF Truthy(maxdepth) /\ dep >= maxdepth[1]
            THEN walk_loop(Tail(stack), dep, t, f, maxdepth, order)
            ELSE IF order = "post" /\ Len(ch) > 0 /\ dep >= last_depth
            THEN walk_loop(chs \o <<Head(stack)>> \o Tail(stack), dep, t, f,
                           maxdepth, order)
            ELSE walk_loop(IF order = "pre" THEN chs \o Tail(stack)
                           ELSE IF order = "bfs" THEN Tail(stack) \o chs
                           ELSE Tail(stack),
                           dep, Callback(f, t, d, dep), f, maxdepth, order)

\* walk_tree(tree, f, maxdepth, order); calls starts empty.
walk_tree(root, t, f, maxdepth, order) ==
    walk_loop(<<<<root, 0>>>>, 0, [t EXCEPT !.calls = <<>>], f, maxdepth, order)

\* A variant of filter_tree that walks in pre order.
filter_tree_pre(t, root) ==
    walk_tree(root, [t EXCEPT !.tested = <<>>], "_filter", None, "pre")

\* filter_tree(root, lambda d: d.file_count_tree > 0)
filter_tree(t, root) ==
    walk_tree(root, [t EXCEPT !.tested = <<>>], "_filter", None, "post")

\* A variant of the descent that stops at the last node it found when a name
\* has no child.
RECURSIVE DescendLenient(_, _, _)
DescendLenient(nodes, node, parts) ==
    IF parts = <<>> \/ <<Head(parts)>> \notin DOMAIN nodes[node].subdirectories
    THEN [error |-> "", cause |-> None, node |-> node]
    ELSE DescendLenient(nodes, nodes[node].subdirectories[<<Head(parts)>>],
                        Tail(parts))

\* The descent of extract_subtree from node along the names parts.
RECURSIVE Descend(_, _, _)
Descend(nodes, node, parts) ==
    IF parts = <<>>
    THEN [error |-> "", cause |-> None, node |-> node]
    ELSE IF <<Head(parts)>> \in DOMAIN nodes[node].subdirectories
    THEN Descend(nodes, nodes[node].subdirectories[<<Head(parts)>>], Tail(parts))
    ELSE [error |-> "RuntimeError", cause |-> Some(<<Head(parts)>>), node |-> 0]

\* A variant of extract_subtree that descends along the whole path, the
\* root's own names included.
extract_subtree_whole(t, root, path) ==
    IF ~IsRelativeTo(path, t.nodes[root].path[1])
    THEN [error |-> "ValueError", cause |-> None, node |-> 0]
    ELSE Descend(t.nodes, root, path)

\* extract_subtree(root, path): the node it returns, or the error it raises
\* (the RuntimeError is raised from the KeyError of the missing name, cause).
extract_subtree(t, root, path) ==
    IF ~IsRelativeTo(path, t.nodes[root].path[1])
    THEN [error |-> "ValueError", cause |-> None, node |-> 0]
    ELSE Descend(t.nodes, root,
                 SubSeq(path, Len(t.nodes[root].path[1]) + 1, Len(path)))

\* ------------------------------------------------------------- build_tree
\* A record as build_tree's first pass leaves it: no subdirectories yet, and
\* path and subtree aggregates as the class has them.
Node(rec) ==
    [id |-> rec.id, name |-> rec.name, parent_id |-> rec.parent_id,
     mtime |-> rec.mtime, scan_status |-> rec.scan_status, dir |-> rec.dir, subdirectories |-> <<>>, path |-> None,
     tree |-> NoAggregates]

\* The first pass (lines 219-226): _dir_cache, and root the last record with
\* a null parent (None when there is none: root stays unbound).
FirstPass(rs) ==
    [nodes |-> [i \in {rs[k].id : k \in 1..Len(rs)} |->
                   Node(rs[CHOOSE k \in 1..Len(rs) :
                           /\ rs[k].id = i
                           /\ \A j \in 1..Len(rs) : rs[j].id = i => j <= k])],
     root |-> LET roots == {k \in 1..Len(rs) : rs[k].parent_id = None}
              IN IF roots = {} THEN None
                 ELSE Some(rs[CHOOSE k \in roots : \A j \in roots : j <= k].id),
     error |-> "",
     missing |-> None,
     calls |-> <<>>,
     tested |-> <<>>]

\* A variant of the second pass that passes over a record whose parent is
\* not in the set.
RECURSIVE SecondPassLenient(_, _, _)
SecondPassLenient(rs, k, t) ==
    IF k > Len(rs) THEN t
    ELSE IF rs[k].parent_id = None \/ rs[k].parent_id[1] \notin DOMAIN t.nodes
    THEN SecondPassLenient(rs, k + 1, t)
    ELSE SecondPassLenient(rs, k + 1,
            [t EXCEPT !.nodes[rs[k].parent_id[1]].subdirectories =
                (rs[k].name :> rs[k].id) @@ @])

\* The second pass (lines 229-241) from record k on: every record with a
\* parent is put into the parent's subdirectories under its name; a parent
\* id that no record has raises the RuntimeError that names it.
RECURSIVE SecondPass(_, _, _)
SecondPass(rs, k, t) ==
    IF k > Len(rs) \/ t.error # "" THEN t
    ELSE IF rs[k].parent_id = None
    THEN SecondPass(rs, k + 1, t)
    ELSE IF rs[k].parent_id[1] \notin DOMAIN t.nodes
    THEN [t EXCEPT !.error = "RuntimeError", !.missing = rs[k].parent_id]
    ELSE SecondPass(rs, k + 1,
            [t EXCEPT !.nodes[rs[k].parent_id[1]].subdirectories =
                (rs[k].name :> rs[k].id) @@ @])

\* A variant of build_tree that sums the subdirectories in a pre-order walk.
build_tree_preorder(rs) ==
    LET t == SecondPass(rs, 1, FirstPass(rs))
    IN IF t.error # "" THEN [t EXCEPT !.root = 0]
       ELSE IF t.root = None THEN [t EXCEPT !.root = 0, !.error = "UnboundLocalError"]
       ELSE LET r == t.root[1]
                t0 == [t EXCEPT !.root = r]
                t1 == walk_tree(r, t0, "_add_paths", None, "pre")
            IN walk_tree(r, t1, "_sum_subdirs", None, "pre")

\* A variant of build_tree that sets the paths in a post-order walk.
build_tree_paths_post(rs) ==
    LET t == SecondPass(rs, 1, FirstPass(rs))
    IN IF t.error # "" THEN [t EXCEPT !.root = 0]
       ELSE IF t.root = None THEN [t EXCEPT !.root = 0, !.error = "UnboundLocalError"]
       ELSE LET r == t.root[1]
                t0 == [t EXCEPT !.root = r]
                t1 == walk_tree(r, t0, "_add_paths", None, "post")
            IN walk_tree(r, t1, "_sum_subdirs", None, "post")

\* A variant of build_tree whose summing walk has a maximum depth of 2.
build_tree_shallow(rs) ==
    LET t == SecondPass(rs, 1, FirstPass(rs))
    IN IF t.error # "" THEN [t EXCEPT !.root = 0]
       ELSE IF t.root = None THEN [t EXCEPT !.root = 0, !.error = "UnboundLocalError"]
       ELSE LET r == t.root[1]
                t0 == [t EXCEPT !.root = r]
                t1 == walk_tree(r, t0, "_add_paths", None, "pre")
            IN walk_tree(r, t1, "_sum_subdirs", Some(2), "post")

\* build_tree(directories): the error it raises ("" when it returns), the id
\* of the root it returns and the nodes as it leaves them.
build_tree(rs) ==
    LET t == SecondPass(rs, 1, FirstPass(rs))
    IN IF t.error # "" THEN [t EXCEPT !.root = 0]
       ELSE IF t.root = None THEN [t EXCEPT !.root = 0, !.error = "UnboundLocalError"]
       ELSE LET r == t.root[1]
                t0 == [t EXCEPT !.root = r]
                t1 == walk_tree(r, t0, "_add_paths", None, "pre")
            IN walk_tree(r, t1, "_sum_subdirs", None, "post")

\* cli.query after a scan: the totals of the store, for all users or for one
\* user of the store, are built into a tree.
Query ==
    /\ pc \in {"returned", "raised"}
    /\ \E u \in {None} \cup {Some(store.users[i]) : i \in 1..Len(store.users)} :
          /\ user' = u
          /\ recs' = query_totals(store, u)
          /\ tree' = build_tree(recs')
    /\ pc' = "queried"
    /\ UNCHANGED <<workers, exclude_patterns, futures, waiting, done, processed,
                   store, txn, dir_cache, uid_cache, gid_cache, count,
                   extract, walkArgs>>

\* -------------------------------------------------- build_tree on its own
\* Per-directory aggregates a record can carry: none (a plain select), those
\* of a directory without files, of one with the file f, and of one with the
\* files f and g.
OwnTotals ==
    {NoAggregates,
     [file_count |-> Some(0), allocated_size |-> Some(0),
      apparent_size |-> Some(0), mtime |-> Some(0)],
     [file_count |-> Some(1), allocated_size |-> Some(BlockSize),
      apparent_size |-> Some(1), mtime |-> Some(3)],
     [file_count |-> Some(2), allocated_size |-> Some(BlockSize),
      apparent_size |-> Some(3), mtime |-> Some(5)]}

\* How n records are named: by ascending id, by descending id, or all alike.
Namings == {"asc", "desc", "same"}
NameOf(naming, n, i) ==
    IF naming = "asc" THEN <<i>>
    ELSE IF naming = "desc" THEN <<n + 1 - i>>
    ELSE <<1>>

\* The parent_id columns n records with the ids 1..n can have: each is null,
\* the id of another record, or an id (n + 1) that no record has.
ParentColumns(n) ==
    {p \in [1..n -> {None} \cup {Some(j) : j \in 1..(n + 1)}] :
        \A i \in 1..n : p[i] # Some(i)}

\* n records with the ids 1..n, in the order of their ids.
Records(n, naming, parents, totals) ==
    [i \in 1..n |->
        [id |-> i, name |-> NameOf(naming, n, i), parent_id |-> parents[i],
         mtime |-> 0, scan_status |-> "SUCCESSFUL", dir |-> totals[i]]]

\* A caller holds a set of Directory records.
TreeInit ==
    /\ workers = 1
    /\ exclude_patterns = {}
    /\ pc = "loaded"
    /\ futures = <<>>
    /\ waiting = {}
    /\ done = {}
    /\ processed = {}
    /\ store = EmptyStore
    /\ txn = EmptyStore
    /\ dir_cache = <<>>
    /\ uid_cache = {}
    /\ gid_cache = {}
    /\ count = 0
    /\ user = None
    /\ \E n \in 1..MaxRecs, naming \in Namings :
          \E parents \in ParentColumns(n), totals \in [1..n -> OwnTotals] :
             recs = Records(n, naming, parents, totals)
    /\ tree = NoTree
    /\ extract = NoExtract
    /\ walkArgs = NoWalk

\* The caller gives the records to build_tree.
BuildTree ==
    /\ pc = "loaded"
    /\ tree' = build_tree(recs)
    /\ pc' = "built"
    /\ UNCHANGED <<workers, exclude_patterns, futures, waiting, done, processed,
                   store, txn, dir_cache, uid_cache, gid_cache, count, user, recs,
                   extract, walkArgs>>

TreeNext == BuildTree

TreeSpec == TreeInit /\ [][TreeNext]_vars

\* ------------------------------------------------- the query on a tree
\* The per-directory aggregates the totals query gives a record: those of a
\* directory without files and of one with the file f.
QueryTotals ==
    {[file_count |-> Some(0), allocated_size |-> Some(0),
      apparent_size |-> Some(0), mtime |-> Some(0)],
     [file_count |-> Some(1), allocated_size |-> Some(BlockSize),
      apparent_size |-> Some(1), mtime |-> Some(3)]}

\* cli.query holds the records of the totals query.
QueryInit ==
    /\ workers = 1
    /\ exclude_patterns = {}
    /\ pc = "loaded"
    /\ futures = <<>>
    /\ waiting = {}
    /\ done = {}
    /\ processed = {}
    /\ store = EmptyStore
    /\ txn = EmptyStore
    /\ dir_cache = <<>>
    /\ uid_cache = {}
    /\ gid_cache = {}
    /\ count = 0
    /\ user = None
    /\ \E n \in 1..MaxRecs, naming \in {"asc", "desc"} :
          \E parents \in ParentColumns(n), totals \in [1..n -> QueryTotals] :
             recs = Records(n, naming, parents, totals)
    /\ tree = NoTree
    /\ extract = NoExtract
    /\ walkArgs = NoWalk

\* The nodes d's child map holds, and the nodes of the tree under d.
Kids(nodes, d) ==
    {nodes[d].subdirectories[n] : n \in DOMAIN nodes[d].subdirectories}

RECURSIVE Below(_, _)
Below(nodes, d) == {d} \cup UNION {Below(nodes, c) : c \in Kids(nodes, d)}

\* The --subpath arguments tried: the path of a node of the tree, such a
\* path with one or two more names, and a path outside the tree.
SubPaths ==
    LET paths == {tree.nodes[d].path[1] : d \in Below(tree.nodes, tree.root)}
        more == {0} \cup {recs[k].name[1] : k \in 1..Len(recs)}
    IN paths \cup {p \o <<c>> : p \in paths, c \in more}
             \cup {p \o <<0, 1>> : p \in paths}
             \cup {<<0>>}

\* The root cli.query goes on with: the extracted node, if any.
QueryRoot == IF extract.error = "" THEN extract.node ELSE tree.root

\* root = fdu.extract_subtree(root, subpath)
Extract ==
    /\ pc = "built"
    /\ tree.error = ""
    /\ \E path \in SubPaths :
          extract' = [path |-> path] @@ extract_subtree(tree, tree.root, path)
    /\ pc' = "extracted"
    /\ UNCHANGED <<otherScanVars, user, recs, tree, walkArgs>>

\* fdu.filter_tree(root, lambda d: d.file_count_tree > 0)
Filter ==
    /\ \/ pc = "built" /\ tree.error = ""
       \/ pc = "extracted" /\ extract.error = ""
    /\ tree' = filter_tree(tree, QueryRoot)
    /\ pc' = "filtered"
    /\ UNCHANGED <<otherScanVars, user, recs, extract, walkArgs>>

\* util.walk_tree(root, _print, order, maxdepth)
Walk ==
    /\ \/ pc \in {"built", "filtered"} /\ tree.error = ""
       \/ pc = "extracted" /\ extract.error = ""
    /\ \E order \in {"pre", "post", "bfs"},
          maxdepth \in {None, Some(0), Some(1), Some(2)} :
          /\ walkArgs' = [NoWalk EXCEPT !.order = order, !.maxdepth = maxdepth]
          /\ tree' = walk_tree(QueryRoot, tree, "_print", maxdepth, order)
    /\ pc' = "walked"
    /\ UNCHANGED <<otherScanVars, user, recs, extract>>

\* print_directory_fn's colspec: the attribute of each column code.
colspec ==
    ("c" :> "file_count_dir") @@ ("C" :> "file_count_tree")
    @@ ("s" :> "allocated_size_dir") @@ ("S" :> "allocated_size_tree")
    @@ ("a" :> "apparent_size_dir") @@ ("A" :> "apparent_size_tree")
    @@ ("t" :> "mtime_dir") @@ ("T" :> "mtime_tree")

\* print_directory_fn(columns) up to the return of _print: the ValueError of
\* the first code that colspec does not have, if any.
print_directory_fn(columns) ==
    IF \A i \in 1..Len(columns) : columns[i] \in DOMAIN colspec
    THEN [error |-> "", code |-> None]
    ELSE [error |-> "ValueError",
          code |-> Some(columns[CHOOSE i \in 1..Len(columns) :
                                  /\ columns[i] \notin DOMAIN colspec
                                  /\ \A j \in 1..(i - 1) : columns[j] \in DOMAIN colspec])]

\* The --fields lists tried: each code of the help text and of colspec, a
\* code of neither, and lists of two.
ColumnLists ==
    {<<c>> : c \in {"n", "N", "c", "C", "s", "S", "a", "A", "t", "T", "x"}}
    \cup {<<"S", "n">>, <<"x", "n">>, <<"S", "T">>}

\* The report of cli.query without --subpath and with --all (lines 188-193):
\* print_directory_fn(columns), then the pre-order walk that prints a line
\* per node.
Report ==
    /\ pc = "built"
    /\ tree.error = ""
    /\ \E columns \in ColumnLists :
          /\ walkArgs' = [order |-> "pre", maxdepth |-> None, columns |-> columns]
                            @@ print_directory_fn(columns)
          /\ tree' = IF print_directory_fn(columns).error # ""
                     THEN tree
                     ELSE walk_tree(tree.root, tree, "_print", None, "pre")
    /\ pc' = "reported"
    /\ UNCHANGED <<otherScanVars, user, recs, extract>>

QueryNext ==
    \/ BuildTree
    \/ Extract
    \/ Filter
    \/ Walk
    \/ Report

QuerySpec == QueryInit /\ [][QueryNext]_vars

\* The steps of a scan.
ScanNext ==
    \/ Start
    \/ WorkerStart
    \/ WorkerFinish
    \/ Wait
    \/ \E f \in done : ProcessOne(f)
    \/ Commit
    \/ Return
    \/ Raise

Next ==
    \/ ScanNext
    \/ Query
    \/ Rescan

Spec == Init /\ [][Next]_vars

TypeOK ==
    /\ workers \in 1..MaxWorkers
    /\ pc \in {"start", "wait", "drain", "aborting", "returned", "raised",
              "queried", "loaded", "built", "extracted", "filtered", "walked", "reported",
              "rescanned"}
    /\ waiting \subseteq 1..Len(futures)
    /\ processed \subseteq done
    /\ Discovered <= MaxDirs

\* ------------------------------------------------- reading the scan's state
\* The path a Directory row stands for: its names joined along the parent
\* links.
RECURSIVE DirPath(_, _)
DirPath(dirs, i) ==
    IF dirs[i].parent = None
    THEN dirs[i].name
    ELSE DirPath(dirs, dirs[i].parent[1]) \o dirs[i].name

\* The ids of the Directory rows of a path.
IdsOf(dirs, path) == {i \in 1..Len(dirs) : DirPath(dirs, i) = path}
\* The futures submitted for a path.
TasksOf(path) == {f \in 1..Len(futures) : futures[f].path = path}

\* The entries of a finished future's listing, as paths.
Listing(f) ==
    {futures[f].path \o <<futures[f].result.subdirs[i]>> :
        i \in 1..Len(futures[f].result.subdirs)}
\* The futures whose listing succeeded.
Listed == {f \in Finished : futures[f].result.kind = "ok"}
\* The futures whose stat or listing raised PermissionError.
Denied == {f \in Finished : futures[f].result.kind = "perm"}
\* The futures that have been through the for loop: those of the earlier
\* batches and the processed ones of the current batch.
Drained == (Finished \ waiting) \ (done \ processed)
\* A path that matches one of the patterns given to scan_path.
Excluded(path) == \E p \in exclude_patterns : Matches(p, path)
\* Every directory the scan has come across: the root and every entry of a
\* successful listing.
Found == {RootPath} \cup UNION {Listing(f) : f \in Listed}
Terminal == {"SUCCESSFUL", "SKIPPED_PERMISSION", "SKIPPED_EXCLUDE"}
\* The scan_status the committed store has for a path ("" without a row).
StatusOf(dirs, path) ==
    IF IdsOf(dirs, path) = {} THEN ""
    ELSE dirs[CHOOSE i \in IdsOf(dirs, path) : TRUE].scan_status

\* ---------------------------------------------------------------------- C1
\* C1: every directory is processed exactly once. In every state no path has
\* two tasks and no path has two Directory rows; and when scan_path has
\* returned, the root and every directory that a successful listing yielded
\* and that is not excluded has exactly one task, which was drained, and
\* exactly one Directory row, and there are no other tasks.
C1_ExactlyOnce ==
    /\ \A f, g \in 1..Len(futures) : futures[f].path = futures[g].path => f = g
    /\ \A i, j \in 1..Len(txn.dirs) :
          DirPath(txn.dirs, i) = DirPath(txn.dirs, j) => i = j
    /\ pc = "returned" =>
          /\ \A path \in Found :
                ~Excluded(path) \/ path = RootPath =>
                   /\ Cardinality(TasksOf(path)) = 1
                   /\ TasksOf(path) \subseteq Drained
                   /\ Cardinality(IdsOf(store.dirs, path)) = 1
          /\ \A f \in 1..Len(futures) :
                /\ futures[f].path \in Found
                /\ futures[f].path = RootPath \/ ~Excluded(futures[f].path)

\* A scan of three directories, two of them siblings, has returned.
C1_Witness ==
    /\ pc = "returned"
    /\ Len(futures) = 3
    /\ \E f \in Listed : Len(futures[f].result.subdirs) = 2

\* ---------------------------------------------------------------------- C2
\* C2: scan_path returns only on an empty waiting set, and then every
\* directory that was found has a Directory row with a terminal scan_status,
\* and no row of the store is NOT_SCANNED.
C2_ReturnComplete ==
    pc = "returned" =>
        /\ waiting = {}
        /\ \A f \in 1..Len(futures) : f \in Drained
        /\ \A path \in Found : StatusOf(store.dirs, path) \in Terminal
        /\ \A i \in 1..Len(store.dirs) : store.dirs[i].scan_status # "NOT_SCANNED"

\* A scan has returned that met a denied, an excluded and a listed directory.
C2_Witness ==
    /\ pc = "returned"
    /\ \E i, j, k \in 1..Len(store.dirs) :
          /\ store.dirs[i].scan_status = "SUCCESSFUL"
          /\ store.dirs[j].scan_status = "SKIPPED_PERMISSION"
          /\ store.dirs[k].scan_status = "SKIPPED_EXCLUDE"

\* ---------------------------------------------------------------------- C3
\* The coordinator's steps.
Coordinator ==
    \/ Start
    \/ Wait
    \/ \E f \in done : ProcessOne(f)
    \/ Commit
    \/ Return
    \/ Raise

\* The scan alone, with fair workers (every submitted task is started and
\* finishes) and a coordinator that keeps running.
FairSpec ==
    /\ Init
    /\ [][ScanNext]_vars
    /\ WF_vars(WorkerStart)
    /\ WF_vars(WorkerFinish)
    /\ WF_vars(Coordinator)

\* Some worker has raised an error other than PermissionError.
WorkerRaised == \E f \in 1..Len(futures) : futures[f].result.kind = "ioerr"

Siblings(path) ==
    {q \in Found : q # path /\ q # RootPath /\ path # RootPath
                   /\ ParentPath(q) = ParentPath(path)}

ExcludedFound ==
    {q \in UNION {Listing(f) : f \in Listed \cap Drained} : Excluded(q)}

\* C5: a subdirectory whose path matches a pattern is recorded
\* SKIPPED_EXCLUDE by the processing of its parent (in the parent's
\* transaction, and in the store once that is committed), is never submitted
\* as a task, and is never the parent of a Directory row nor the directory of
\* a File row.
C5_ExcludedSkipped ==
    /\ \A f \in 1..Len(futures) :
          futures[f].path = RootPath \/ ~Excluded(futures[f].path)
    /\ \A q \in ExcludedFound :
          /\ Cardinality(IdsOf(txn.dirs, q)) = 1
          /\ StatusOf(txn.dirs, q) = "SKIPPED_EXCLUDE"
          /\ pc = "returned" => StatusOf(store.dirs, q) = "SKIPPED_EXCLUDE"
          /\ \A st \in {store, txn} : \A i \in IdsOf(st.dirs, q) :
                /\ st.dirs[i].scan_status = "SKIPPED_EXCLUDE"
                /\ \A r \in st.files : r.directory # i
                /\ \A j \in 1..Len(st.dirs) : st.dirs[j].parent # Some(i)

\* A scan has returned with an excluded subdirectory beside a scanned one.
C5_Witness ==
    /\ pc = "returned"
    /\ \E q \in ExcludedFound :
          /\ StatusOf(store.dirs, q) = "SKIPPED_EXCLUDE"
          /\ \E f \in Listed : ParentPath(futures[f].path) = ParentPath(q)

\* ---------------------------------------------------------------------- C6
\* A path has a Directory row in the committed store.
Visible(path) == IdsOf(store.dirs, path) # {}

\* C6: every committed state of the store is made of whole batches. A
\* directory the store has as SUCCESSFUL has all the File rows of its listing
\* there; every File row of the store belongs to a SUCCESSFUL directory; and
\* the directories drained in one wake-up (done) are visible in the store
\* all together or not at all, the excluded subdirectories they recorded
\* with them.
C6_AtomicBatches ==
    /\ \A f \in Listed :
          \A i \in IdsOf(store.dirs, futures[f].path) :
             store.dirs[i].scan_status = "SUCCESSFUL" =>
                FileRows(futures[f].result.files, i) \subseteq store.files
    /\ \A r \in store.files :
          /\ r.directory \in 1..Len(store.dirs)
          /\ store.dirs[r.directory].scan_status = "SUCCESSFUL"
    /\ \A f, g \in done :
          /\ Visible(futures[f].path) <=> Visible(futures[g].path)
          /\ futures[g].result.kind = "ok" =>
                \A q \in Listing(g) :
                   Excluded(q) => (Visible(q) <=> Visible(futures[f].path))

\* A committed batch of two directories, one of them with files.
C6_Witness ==
    /\ pc = "wait"
    /\ Cardinality(done) = 2
    /\ \A f \in done : Visible(futures[f].path)
    /\ \E f \in done : futures[f].result.files # {}

\* ---------------------------------------------------------------------- C7
\* The futures drained in the batches before the current one.
Earlier == (Finished \ waiting) \ done

\* C7: a worker's error other than PermissionError leaves scan_path (the scan
\* aborts on the future that raised, which is not processed), and the store
\* then holds what the earlier batches committed and nothing of the failing
\* batch: no directory drained in that batch is visible, nor any excluded
\* subdirectory it recorded, every Directory row is a directory of an earlier
\* batch or an excluded entry of one, and every File row was listed by one.
C7_AbortKeepsCommitted ==
    pc \in {"aborting", "raised"} =>
        /\ \E f \in done \ processed : futures[f].result.kind = "ioerr"
        /\ \A f \in done :
              /\ ~Visible(futures[f].path)
              /\ futures[f].result.kind = "ok" =>
                    \A q \in Listing(f) : ~Visible(q)
        /\ \A i \in 1..Len(store.dirs) :
              \E f \in Earlier :
                 \/ DirPath(store.dirs, i) = futures[f].path
                 \/ /\ futures[f].result.kind = "ok"
                    /\ DirPath(store.dirs, i) \in Listing(f)
                    /\ Excluded(DirPath(store.dirs, i))
        /\ \A f \in Earlier :
              /\ StatusOf(store.dirs, futures[f].path) \in
                    {"SUCCESSFUL", "SKIPPED_PERMISSION"}
              /\ futures[f].result.kind = "ok" =>
                    \A i \in IdsOf(store.dirs, futures[f].path) :
                       {r \in store.files : r.directory = i} =
                          FileRows(futures[f].result.files, i)
        /\ store.meta = <<"path", "schema">>

\* A scan has raised on a batch in which a directory with files was
\* processed before the failing one, after an earlier batch was committed.
C7_Witness ==
    /\ pc = "raised"
    /\ Len(store.dirs) > 0
    /\ \E f \in processed : futures[f].result.files # {}

\* ---------------------------------------------------------------------- C8
\* The value of an aggregate with None read as 0.
Val0(x) == IF x = None THEN 0 ELSE x[1]

\* The records whose parent_id is the id i.
ChildRecs(rs, i) == {k \in 1..Len(rs) : rs[k].parent_id = Some(i)}

\* The record k reaches a record with a null parent in at most n steps along
\* the parent ids.
RECURSIVE ReachesRoot(_, _, _)
ReachesRoot(rs, k, n) ==
    \/ rs[k].parent_id = None
    \/ /\ n > 0
       /\ \E j \in 1..Len(rs) :
             rs[j].id = rs[k].parent_id[1] /\ ReachesRoot(rs, j, n - 1)

\* A complete single-rooted record set: one record with a null parent, every
\* record below it, and no two records of one parent with the same name.
CompleteTree(rs) ==
    /\ Cardinality({k \in 1..Len(rs) : rs[k].parent_id = None}) = 1
    /\ \A k \in 1..Len(rs) : ReachesRoot(rs, k, Len(rs))
    /\ \A j, k \in 1..Len(rs) :
          rs[j].parent_id = rs[k].parent_id /\ rs[j].name = rs[k].name => j = k

\* The aggregates k of the subtrees of a set of nodes, added up (None as 0).
RECURSIVE SumTrees(_, _, _)
SumTrees(nodes, S, k) ==
    IF S = {} THEN 0
    ELSE LET c == CHOOSE x \in S : TRUE
         IN Val0(nodes[c].tree[k]) + SumTrees(nodes, S \ {c}, k)

\* The operands of node i's subtree aggregate k that are present: its own
\* per-directory aggregate and the subtree aggregates of the nodes in S.
PresentOperands(nodes, i, S, k) ==
    {nodes[j].tree[k][1] : j \in {c \in S : nodes[c].tree[k] # None}}
    \cup {nodes[j].dir[k][1] : j \in {c \in {i} : nodes[c].dir[k] # None}}

\* Node i's subtree aggregate k is its own aggregate combined with those of
\* the nodes in S, an absent operand being the identity: a sum for the count
\* and the sizes, the maximum for the mtime, None when no operand is present.
Combines(nodes, i, S, k) ==
    IF PresentOperands(nodes, i, S, k) = {}
    THEN nodes[i].tree[k] = None
    ELSE /\ nodes[i].tree[k] # None
         /\ IF k = "mtime"
            THEN /\ nodes[i].tree[k][1] \in PresentOperands(nodes, i, S, k)
                 /\ \A v \in PresentOperands(nodes, i, S, k) : v <= nodes[i].tree[k][1]
            ELSE nodes[i].tree[k][1] = Val0(nodes[i].dir[k]) + SumTrees(nodes, S, k)

\* C8: build_tree on a complete single-rooted record set returns, and then
\* for every record file_count_tree = file_count_dir + the sum of the
\* file_count_tree of its direct children (the records whose parent it is),
\* the same for allocated_size and apparent_size, and mtime_tree is the
\* maximum of mtime_dir and the children's mtime_tree, None being the
\* identity.
C8_SubtreeTotals ==
    pc = "built" /\ CompleteTree(recs) =>
        /\ tree.error = ""
        /\ \A k \in 1..Len(recs) : \A a \in Fields :
              Combines(tree.nodes, recs[k].id,
                       {recs[c].id : c \in ChildRecs(recs, k)}, a)

\* A tree was built of a chain of three records whose root totals 4 files.
C8_Witness ==
    /\ pc = "built"
    /\ CompleteTree(recs)
    /\ Len(recs) = 3
    /\ \E k \in 1..Len(recs) :
          recs[k].parent_id # None /\ ChildRecs(recs, k) # {}
    /\ tree.nodes[tree.root].tree.file_count = Some(4)

\* ---------------------------------------------------------------------- C9
\* C9: in every tree build_tree returns, for every node of it and each
\* aggregate: the subtree aggregate is None exactly when the node's own
\* aggregate and the subtree aggregates of all its children are None;
\* otherwise it is the sum (the maximum for mtime) of the operands that are
\* present; and a node without children has its own aggregates as subtree
\* aggregates, unchanged.
C9_AbsentIsNotZero ==
    pc = "built" /\ tree.error = "" =>
        \A d \in Below(tree.nodes, tree.root) : \A a \in Fields :
           /\ tree.nodes[d].tree[a] = None <=>
                 /\ tree.nodes[d].dir[a] = None
                 /\ \A c \in Kids(tree.nodes, d) : tree.nodes[c].tree[a] = None
           /\ Combines(tree.nodes, d, Kids(tree.nodes, d), a)
           /\ Kids(tree.nodes, d) = {} => tree.nodes[d].tree[a] = tree.nodes[d].dir[a]

\* A tree was built in which a node without aggregates of its own has a
\* child whose subtree has none either and a child whose subtree has some,
\* and in which a leaf has none.
C9_Witness ==
    /\ pc = "built"
    /\ tree.error = ""
    /\ \E d \in Below(tree.nodes, tree.root) :
          /\ tree.nodes[d].dir.file_count = None
          /\ \E c1, c2 \in Kids(tree.nodes, d) :
                /\ tree.nodes[c1].tree.file_count = None
                /\ tree.nodes[c2].tree.file_count = Some(1)
                /\ Kids(tree.nodes, c1) = {}
          /\ tree.nodes[d].tree.file_count = Some(1)

\* --------------------------------------------------------------------- C10
\* The File rows of Directory i that the query counts: all of them, or with
\* a user filter those of that user.
Counted(i) ==
    {r \in store.files : r.directory = i /\ (user = None \/ r.user = user[1])}

\* C10: the totals query has exactly one record for every Directory row of
\* the store, also for one without files and, under a user filter, for one
\* none of whose files is that user's; its file_count_dir is the number of
\* counted files, 0 (not None) when there are none; and when such a
\* directory has no children either, build_tree gives it file_count_tree 0.
C10_EmptyDirsCounted ==
    pc = "queried" =>
        \A i \in 1..Len(store.dirs) :
           /\ Cardinality({k \in 1..Len(recs) : recs[k].id = i}) = 1
           /\ \A k \in 1..Len(recs) :
                 recs[k].id = i =>
                    /\ recs[k].dir.file_count = Some(Cardinality(Counted(i)))
                    /\ recs[k].name = store.dirs[i].name
                    /\ recs[k].parent_id = store.dirs[i].parent
           /\ (/\ tree.error = ""
               /\ Counted(i) = {}
               /\ \A j \in 1..Len(store.dirs) : store.dirs[j].parent # Some(i))
              => tree.nodes[i].tree.file_count = Some(0)

\* A query with a user filter met a childless directory whose only file is
\* another user's, beside a directory without any file.
C10_Witness ==
    /\ pc = "queried"
    /\ user # None
    /\ tree.error = ""
    /\ \E i, j \in 1..Len(store.dirs) :
          /\ i # j
          /\ Counted(i) = {}
          /\ \E r \in store.files : r.directory = i
          /\ \A c \in 1..Len(store.dirs) : store.dirs[c].parent # Some(i)
          /\ tree.nodes[i].tree.file_count = Some(0)
          /\ \A r \in store.files : r.directory # j

\* --------------------------------------------------------------------- C11
\* The records with a null parent.
NullParents(rs) == {k \in 1..Len(rs) : rs[k].parent_id = None}

\* C11: build_tree fails whenever the record set does not hold exactly one
\* record with a null parent, be it none or more than one, instead of
\* returning a tree.
C11_UniqueRootOrFail ==
    pc = "built" /\ Cardinality(NullParents(recs)) # 1 => tree.error # ""

\* --------------------------------------------------------------------- C12
\* The parent ids of the records that no record of the set has as its id.
MissingParents(rs) ==
    {rs[k].parent_id[1] : k \in {j \in 1..Len(rs) : rs[j].parent_id # None}}
    \ {rs[k].id : k \in 1..Len(rs)}

\* The places (node, name) of the child maps where the node i is attached.
Attached(nodes, i) ==
    {<<p, n>> \in UNION {{<<q, m>> : m \in DOMAIN nodes[q].subdirectories} :
                            q \in DOMAIN nodes} :
        nodes[p].subdirectories[n] = i}

\* C12: build_tree fails with a RuntimeError naming a missing parent id
\* whenever some record's parent id is not the id of a record of the set,
\* wherever the record stands relative to the others; when every parent id
\* is present and build_tree returns, the child map of every record's parent
\* has the record's name as a key, and the record is attached nowhere else:
\* it is the value of that key unless a later record of the same parent and
\* name has taken the key.
C12_CompleteOrFail ==
    pc = "built" =>
        /\ MissingParents(recs) # {} =>
              /\ tree.error = "RuntimeError"
              /\ tree.missing # None
              /\ tree.missing[1] \in MissingParents(recs)
        /\ MissingParents(recs) = {} => tree.error # "RuntimeError"
        /\ MissingParents(recs) = {} /\ tree.error = "" =>
              \A k \in 1..Len(recs) :
                 recs[k].parent_id # None =>
                    /\ recs[k].name \in DOMAIN tree.nodes[recs[k].parent_id[1]].subdirectories
                    /\ Attached(tree.nodes, recs[k].id)
                          \subseteq {<<recs[k].parent_id[1], recs[k].name>>}
                    /\ (\A j \in (k + 1)..Len(recs) :
                           ~(/\ recs[j].parent_id = recs[k].parent_id
                             /\ recs[j].name = recs[k].name))
                       => Attached(tree.nodes, recs[k].id)
                             = {<<recs[k].parent_id[1], recs[k].name>>}

\* A set of three records was refused for the parent id 4 of its first
\* record, which no record has, although the other two are root and child.
C12_Witness ==
    /\ pc = "built"
    /\ tree.error = "RuntimeError"
    /\ tree.missing = Some(4)
    /\ Len(recs) = 3
    /\ recs[1].parent_id = Some(4)
    /\ recs[2].parent_id = Some(3)
    /\ recs[3].parent_id = None

\* --------------------------------------------------------------------- C13
\* C13: when build_tree has linked the records and found a root, it returns
\* (no path is computed from a parent whose path is not set yet), the root's
\* path is its name, every node below the root has its path set, and the
\* path of every node below the root other than the root is the path of its
\* parent (the node whose child map holds it, which is the node its
\* parent_id names) joined with its own name.
C13_Paths ==
    pc = "built" /\ tree.error \notin {"RuntimeError", "UnboundLocalError"} =>
        /\ tree.error = ""
        /\ tree.nodes[tree.root].path = Some(tree.nodes[tree.root].name)
        /\ \A d \in Below(tree.nodes, tree.root) :
              /\ tree.nodes[d].path # None
              /\ \A c \in Kids(tree.nodes, d) :
                    /\ tree.nodes[c].parent_id = Some(d)
                    /\ tree.nodes[d].path # None
                    /\ tree.nodes[c].path =
                          Some(tree.nodes[d].path[1] \o tree.nodes[c].name)

\* A chain of three records was built and the lowest has a path of three
\* names.
C13_Witness ==
    /\ pc = "built"
    /\ tree.error = ""
    /\ \E d \in Below(tree.nodes, tree.root) :
          /\ tree.nodes[d].path # None
          /\ Len(tree.nodes[d].path[1]) = 3
          /\ tree.nodes[d].path[1][1] = tree.nodes[tree.root].name[1]

\* --------------------------------------------------------------------- C14
\* C14: for every node n of a built tree, extract_subtree(root, n.path)
\* returns n itself, the tree being left as build_tree made it (so n has the
\* children and aggregates build_tree gave it); for the root's path it
\* returns the root.
C14_ExtractFindsNode ==
    pc = "extracted" =>
        /\ \A d \in Below(tree.nodes, tree.root) :
              extract.path = tree.nodes[d].path[1] =>
                 extract.error = "" /\ extract.node = d
        /\ tree = build_tree(recs)

\* The path of a node two levels under the root, which has a file, was
\* extracted.
C14_Witness ==
    /\ pc = "extracted"
    /\ extract.error = ""
    /\ extract.node # tree.root
    /\ extract.node \notin Kids(tree.nodes, tree.root)
    /\ Len(extract.path) = 3
    /\ tree.nodes[extract.node].tree.file_count = Some(1)

\* --------------------------------------------------------------------- C15
\* The paths of the nodes of the tree.
NodePaths == {tree.nodes[d].path[1] : d \in Below(tree.nodes, tree.root)}

\* C15: when the requested path lies under the root's path and, going down
\* from the root name by name, the name at position k + 1 is the first that
\* has no child at its level, extract_subtree raises the RuntimeError, which
\* carries that name (it is raised from the KeyError of that name), returns
\* no node and leaves the tree as it was.
C15_ExtractNotFound ==
    pc = "extracted" =>
        \A k \in 1..(Len(extract.path) - 1) :
           /\ SubSeq(extract.path, 1, k) \in NodePaths
           /\ SubSeq(extract.path, 1, k + 1) \notin NodePaths
           => /\ extract.error = "RuntimeError"
              /\ extract.cause = Some(<<extract.path[k + 1]>>)
              /\ extract.node = 0
              /\ tree = build_tree(recs)

\* A path was requested whose second name has no child under the root while
\* its third name is the name of a record: the error carries the second.
C15_Witness ==
    /\ pc = "extracted"
    /\ extract.error = "RuntimeError"
    /\ Len(extract.path) = 3
    /\ extract.cause = Some(<<extract.path[2]>>)
    /\ extract.path[2] # extract.path[3]
    /\ Kids(tree.nodes, tree.root) # {}

\* --------------------------------------------------------------------- C16
\* C16: after filter_tree(root, file_count_tree > 0) on a tree of the totals
\* query, a node other than the root that was under the root before is
\* still under it if and only if its file_count_tree is greater than 0, and
\* no node has come under the root that was not there before.
C16_FilterEmpty ==
    pc = "filtered" =>
        /\ tree.error = ""
        /\ Below(tree.nodes, QueryRoot) \subseteq Below(build_tree(recs).nodes, QueryRoot)
        /\ \A d \in Below(build_tree(recs).nodes, QueryRoot) \ {QueryRoot} :
              d \in Below(tree.nodes, QueryRoot)
                 <=> tree.nodes[d].tree.file_count[1] > 0

\* A root with a child that has a file and a child that has none was
\* filtered: the first is kept, the second is gone.
C16_Witness ==
    /\ pc = "filtered"
    /\ extract = NoExtract
    /\ Len(recs) = 3
    /\ \E a, b \in Kids(build_tree(recs).nodes, tree.root) :
          /\ tree.nodes[a].tree.file_count = Some(1)
          /\ tree.nodes[b].tree.file_count = Some(0)
          /\ Kids(tree.nodes, tree.root) = {a}

\* --------------------------------------------------------------------- C17
\* The number of parent links from node d up to node r.
RECURSIVE Distance(_, _, _)
Distance(nodes, r, d) ==
    IF d = r THEN 0 ELSE 1 + Distance(nodes, r, nodes[d].parent_id[1])

\* The nodes the last walk called the callback on, and how often on node d.
Called == {tree.calls[i][1] : i \in 1..Len(tree.calls)}
TimesCalled(d) == Cardinality({i \in 1..Len(tree.calls) : tree.calls[i][1] = d})

\* C17: a walk_tree without depth limit, in each of the orders pre, post and
\* bfs, ends having called the callback exactly once on every node under
\* the root it was given and on no other, each time with the node's distance
\* from that root as depth: 0 for the root, also when it is an extracted
\* subtree.
C17_WalkVisitsAll ==
    pc = "walked" /\ walkArgs.maxdepth = None =>
        /\ Called = Below(tree.nodes, QueryRoot)
        /\ \A d \in Called : TimesCalled(d) = 1
        /\ \A i \in 1..Len(tree.calls) :
              tree.calls[i][2] = Distance(tree.nodes, QueryRoot, tree.calls[i][1])
        /\ <<QueryRoot, 0>> \in {tree.calls[i] : i \in 1..Len(tree.calls)}

\* An extracted subtree of two nodes was walked in post order without depth
\* limit: the child was called with depth 1, then its root with depth 0.
C17_Witness ==
    /\ pc = "walked"
    /\ walkArgs.order = "post"
    /\ walkArgs.maxdepth = None
    /\ extract.error = ""
    /\ extract.node # tree.root
    /\ Len(tree.calls) = 2
    /\ tree.calls[1][2] = 1
    /\ tree.calls[2] = <<extract.node, 0>>

\* --------------------------------------------------------------------- C18
\* C18: a walk_tree with a maximum depth m >= 0, in any order, calls the
\* callback exactly once on every node under its root whose depth is less
\* than m and on no node of depth m or more.
C18_DepthLimit ==
    pc = "walked" /\ walkArgs.maxdepth # None =>
        /\ Called = {d \in Below(tree.nodes, QueryRoot) :
                        Distance(tree.nodes, QueryRoot, d) < walkArgs.maxdepth[1]}
        /\ \A d \in Called : TimesCalled(d) = 1

\* --------------------------------------------------------------------- C19
\* The scanned file system as the workers saw it: the listings by path.
\* Every task has run and none has raised.
ScanComplete ==
    /\ futures # <<>>
    /\ waiting = {}
    /\ \A f \in 1..Len(futures) :
          futures[f].state = "FINISHED" /\ futures[f].result.kind # "ioerr"

\* What a scan of that file system has to store, without ids: a Directory
\* per task and per excluded entry, by path; a File per listed file, by the
\* path of its directory; the owners of the files.
ExpectedDirs ==
    {<<futures[f].path,
       IF futures[f].result.kind = "ok" THEN "SUCCESSFUL" ELSE "SKIPPED_PERMISSION",
       IF futures[f].result.kind = "ok" THEN DirMtime(futures[f].path) ELSE Now>> :
        f \in 1..Len(futures)}
    \cup {<<q, "SKIPPED_EXCLUDE", Now>> :
            q \in {x \in UNION {Listing(f) : f \in Listed} : Excluded(x)}}
ExpectedFiles ==
    UNION {{<<futures[f].path, n, FileStat(n)>> : n \in futures[f].result.files} :
              f \in Listed}

\* The content of the store without ids.
StoredDirs ==
    {<<DirPath(store.dirs, i), store.dirs[i].scan_status, store.dirs[i].mtime>> :
        i \in 1..Len(store.dirs)}
StoredFiles ==
    {<<DirPath(store.dirs, r.directory), r.name,
       [st_size |-> r.apparent_size, st_blocks |-> r.allocated_size \div BlockSize,
        st_mtime |-> r.mtime, st_nlink |-> r.num_links, st_uid |-> r.user,
        st_gid |-> r.group]>> : r \in store.files}

\* The files at or under the path p that the user filter counts, as pairs of
\* the listing and the name.
FilesUnder(p) ==
    {<<f, n>> \in UNION {{<<g, m>> : m \in futures[g].result.files} : g \in Listed} :
        /\ IsRelativeTo(futures[f].path, p)
        /\ (user = None \/ FileStat(n).st_uid = user[1])}

RECURSIVE SumStat(_, _)
SumStat(S, k) ==
    IF S = {} THEN 0
    ELSE LET x == CHOOSE y \in S : TRUE
         IN (IF k = "file_count" THEN 1
             ELSE IF k = "apparent_size" THEN FileStat(x[2]).st_size
             ELSE FileStat(x[2]).st_blocks * BlockSize)
            + SumStat(S \ {x}, k)

\* The latest of the mtimes of the counted files under p and of the
\* directories holding them; 0 without such a file.
LatestUnder(p) ==
    LET times == {FileStat(x[2]).st_mtime : x \in FilesUnder(p)}
                 \cup {DirMtime(futures[x[1]].path) : x \in FilesUnder(p)}
    IN IF times = {} THEN 0 ELSE CHOOSE m \in times : \A t \in times : t <= m

C20_PoolBounded == Cardinality(Running) <= workers

\* With one worker, two tasks are outstanding: one is executing and the
\* other is pending.
C20_Witness ==
    /\ workers = 1
    /\ Cardinality(waiting) = 2
    /\ Cardinality(Running) = 1
    /\ Cardinality(Pending) = 1

\* --------------------------------------------------------------------- C21
\* C21: the coordinator can wake as soon as one outstanding task has
\* finished, whether or not the others have; a wake-up takes exactly the
\* outstanding tasks finished at that moment as the batch done and removes
\* them from waiting; a handle enters waiting only when it is submitted, so
\* it is drained in one batch only; the for loop processes the handles of
\* the batch one by one, each once (count is the number of listings
\* processed); every task submitted while draining is put into waiting; and
\* every handle is outstanding, in the current batch or drained, so that no
\* result is lost. (The steps are those of one invocation.)
C21_FirstCompleted ==
    /\ [](pc = "wait" /\ waiting \cap Finished # {} => ENABLED Wait)
    /\ [](pc = "drain" =>
             /\ done # {}
             /\ done \subseteq Finished
             /\ done \cap waiting = {}
             /\ processed \subseteq done)
    /\ [](\A f \in 1..Len(futures) :
             f \in waiting \/ f \in done \ processed \/ f \in Drained)
    /\ [](count = Cardinality(Drained \cap Listed))
    /\ [][pc = "wait" /\ pc' = "drain" =>
             /\ done' = waiting \cap Finished
             /\ waiting' = waiting \ done']_vars
    /\ [][pc' # "rescanned" =>
             /\ \A f \in (Len(futures) + 1)..Len(futures') : f \in waiting'
             /\ waiting' \ waiting \subseteq (Len(futures) + 1)..Len(futures')
             /\ processed' # processed /\ pc = "drain" /\ pc' = "drain" =>
                   \E f \in done \ processed : processed' = processed \cup {f}]_vars

\* The coordinator has woken for one finished task and processed it while
\* another outstanding task is still executing.
C21_Witness ==
    /\ pc = "drain"
    /\ done = {2}
    /\ processed = done
    /\ waiting = {3}
    /\ futures[3].state = "RUNNING"

\* --------------------------------------------------------------------- C22
\* The content c (the committed store, or the open transaction) has one User
\* row per uid and one Group row per gid of its File rows, and none twice.
OwnersOnce(c) ==
    /\ \A r \in c.files :
          /\ Cardinality({i \in 1..Len(c.users) : c.users[i] = r.user}) = 1
          /\ Cardinality({i \in 1..Len(c.groups) : c.groups[i] = r.group}) = 1
    /\ \A i, j \in 1..Len(c.users) : c.users[i] = c.users[j] => i = j
    /\ \A i, j \in 1..Len(c.groups) : c.groups[i] = c.groups[j] => i = j

\* C22: in every state of a scan, in the transaction as in the committed
\* store, there is at most one User row per uid and one Group row per gid,
\* and every File row refers to the one row of its owner and of its group.
C22_OwnersOnce == OwnersOnce(store) /\ OwnersOnce(txn)

\* Files of the same user in different directories, stored by different
\* batches, and files of two users who share the group: two User rows and
\* one Group row.
C22_Witness ==
    /\ pc = "returned"
    /\ \E r1, r2 \in store.files :
          /\ r1.user = r2.user
          /\ r1.directory # r2.directory
          /\ r1.directory = 1
    /\ Len(store.users) = 2
    /\ Len(store.groups) = 1

\* --------------------------------------------------------------------- C23
\* The Directory rows of the committed store as records for build_tree.
StoredRecords == query_totals(store, None)

\* C23: every committed state of the store, during and after a scan, is a
\* complete single-rooted tree. Once the root is recorded, exactly one
\* Directory row has a null parent, and it is the scan root; no two rows
\* stand for one path; every other row's parent is a committed row (created
\* before it); and build_tree on the committed rows returns a tree, whatever
\* the moment (the store changes only between two waits, on return and on
\* abort).
C23_StoreIsTree ==
    [](store.dirs # <<>> =>
        /\ CompleteTree(StoredRecords)
        /\ \A i \in 1..Len(store.dirs) :
              /\ store.dirs[i].parent = None <=> DirPath(store.dirs, i) = RootPath
              /\ store.dirs[i].parent # None =>
                    store.dirs[i].parent[1] \in 1..(i - 1)
              /\ \A j \in 1..Len(store.dirs) :
                    DirPath(store.dirs, i) = DirPath(store.dirs, j) => i = j
        /\ pc \in {"wait", "returned", "raised"} =>
              build_tree(StoredRecords).error = "")

\* A committed state in the middle of a scan: the root and an excluded
\* subdirectory are stored, registered by the root's processing, while
\* another subdirectory is still outstanding.
C23_Witness ==
    /\ pc = "wait"
    /\ waiting # {}
    /\ Len(store.dirs) = 2
    /\ store.dirs[2].scan_status = "SKIPPED_EXCLUDE"
    /\ store.dirs[2].parent = Some(1)

\* --------------------------------------------------------------------- C24
\* The column codes the claim (and the help text) has as valid.
DocumentedCodes == {"n", "N", "s", "S", "a", "A", "t", "T"}

\* C24: print_directory_fn accepts every list of the codes n, N, s, S, a, A,
\* t and T, and the report is printed; it rejects a list with any other code
\* by an error naming the first such code, and no line is printed.
C24_ColumnCodes ==
    pc = "reported" =>
        IF \A i \in 1..Len(walkArgs.columns) : walkArgs.columns[i] \in DocumentedCodes
        THEN walkArgs.error = "" /\ Called = Below(tree.nodes, tree.root)
        ELSE /\ walkArgs.error = "ValueError"
             /\ \E i \in 1..Len(walkArgs.columns) :
                   /\ walkArgs.code = Some(walkArgs.columns[i])
                   /\ walkArgs.columns[i] \notin DocumentedCodes
                   /\ \A j \in 1..(i - 1) : walkArgs.columns[j] \in DocumentedCodes
             /\ tree = build_tree(recs)

\* --------------------------------------------------------------------- C25
\* C25: every invocation of scan_path starts with an empty directory
\* registry and empty uid and gid caches, the first one of the process and
\* any later one alike, so no record of an earlier invocation can be
\* returned to it.
C25_FreshCaches ==
    [][(pc = "start" \/ pc = "returned") /\ pc' \in {"wait", "rescanned"} =>
          (dir_cache' = <<>> /\ uid_cache' = {} /\ gid_cache' = {})]_vars

\* --------------------------------------------------------------------- C26
\* The proper descendants of node d.
Descendants(nodes, d) == Below(nodes, d) \ {d}

\* The calls of the last walk, made from root with the limit maxdepth, are in
\* post order: a node is called once, after every call on a descendant of
\* it, and every descendant within the limit has been called.
PostOrdered(root, maxdepth) ==
    /\ \A d \in Called : TimesCalled(d) = 1
    /\ \A i, j \in 1..Len(tree.calls) :
          tree.calls[j][1] \in Descendants(tree.nodes, tree.calls[i][1]) => j < i
    /\ \A d \in Called : \A e \in Descendants(tree.nodes, d) :
          (maxdepth = None \/ Distance(tree.nodes, root, e) < maxdepth[1])
              => e \in Called

\* C26: a walk_tree in post order, with or without a maximum depth, calls
\* the callback on a node only after it has called it on every descendant of
\* the node within the depth bound, and calls no node twice: a node with
\* children is expanded when popped first and called when popped again.
\* build_tree's summing walk is such a walk from the tree's root.
C26_PostOrder ==
    /\ pc = "walked" /\ walkArgs.order = "post" => PostOrdered(QueryRoot, walkArgs.maxdepth)
    /\ pc = "built" /\ tree.error = "" =>
          PostOrdered(tree.root, None) /\ Called = Below(tree.nodes, tree.root)

\* A chain of three nodes was walked in post order with maximum depth 2: the
\* node of depth 1, which has a child beyond the limit, was called before
\* the root.
C26_Witness ==
    /\ pc = "walked"
    /\ walkArgs.order = "post"
    /\ walkArgs.maxdepth = Some(2)
    /\ Cardinality(Below(tree.nodes, QueryRoot)) = 3
    /\ Len(tree.calls) = 2
    /\ tree.calls[1][2] = 1
    /\ Descendants(tree.nodes, tree.calls[1][1]) # {}
    /\ tree.calls[2] = <<QueryRoot, 0>>

\* --------------------------------------------------------------------- C27
\* How often the predicate of the last filter_tree was evaluated on node c.
TimesTested(c) ==
    Cardinality(UNION {{<<i, e>> : e \in {x \in tree.tested[i][2] : x[1] = c}} :
                          i \in 1..Len(tree.tested)})

\* C27: filter_tree evaluates the predicate exactly once on every node that
\* was under its root before, the root excepted, on which it never
\* evaluates it; and when it evaluates it on a node, _filter has been called
\* on that node before and the node has the children it has in the end.
C27_FilterOnce ==
    pc = "filtered" =>
        /\ \A c \in Below(build_tree(recs).nodes, QueryRoot) \ {QueryRoot} :
              TimesTested(c) = 1
        /\ \A c \in DOMAIN tree.nodes \ (Below(build_tree(recs).nodes, QueryRoot) \ {QueryRoot}) :
              TimesTested(c) = 0
        /\ Len(tree.tested) = Len(tree.calls)
        /\ \A i \in 1..Len(tree.tested) :
              /\ tree.tested[i][1] = tree.calls[i][1]
              /\ \A e \in tree.tested[i][2] :
                    /\ \E j \in 1..(i - 1) : tree.calls[j][1] = e[1]
                    /\ e[2] = Kids(tree.nodes, e[1])

\* A chain of three nodes whose last node has no file was filtered: when the
\* predicate was evaluated on the middle node, its child was gone already.
C27_Witness ==
    /\ pc = "filtered"
    /\ extract = NoExtract
    /\ Len(tree.tested) = 3
    /\ \E c \in Kids(build_tree(recs).nodes, tree.root) :
          /\ Kids(build_tree(recs).nodes, c) # {}
          /\ tree.tested[3] = <<tree.root, {<<c, {}>>}>>

\* --------------------------------------------------------------------- C28
\* The place of node d in the calls of the last walk.
CallIndex(d) == CHOOSE i \in 1..Len(tree.calls) : tree.calls[i][1] = d

\* The records rs supplied in the order q, a permutation of their places.
Reordered(rs, q) == [i \in 1..Len(rs) |-> rs[q[i]]]

\* The lines of the report of the records rs: the calls of the pre-order
\* walk of their tree.
ReportOf(rs) ==
    LET t == build_tree(rs)
    IN walk_tree(t.root, t, "_print", None, "pre").calls

\* C28: the report of the records of a store, which form one complete tree,
\* has a line for every node, the line of a node before the lines of all its
\* descendants, and the children of a node, each with its subtree, in the
\* ascending order of their names; the sequence of lines is the same for
\* every order in which the records are supplied to build_tree.
C28_ReportOrder ==
    pc = "reported" /\ walkArgs.error = "" /\ CompleteTree(recs) =>
        /\ Called = Below(tree.nodes, tree.root)
        /\ \A d \in Called : TimesCalled(d) = 1
        /\ \A d \in Called : \A e \in Descendants(tree.nodes, d) :
              CallIndex(d) < CallIndex(e)
        /\ \A d \in Called : \A a, b \in Kids(tree.nodes, d) :
              NameLess(tree.nodes[a].name, tree.nodes[b].name) =>
                  \A e \in Below(tree.nodes, a) : CallIndex(e) < CallIndex(b)
        /\ \A q \in Permutations(1..Len(recs)) :
              ReportOf(Reordered(recs, q)) = tree.calls

\* The report of a root with two children whose names are in the opposite
\* order of their ids: the child with the greater id has the first line.
C28_Witness ==
    /\ pc = "reported"
    /\ walkArgs.error = ""
    /\ walkArgs.columns = <<"S", "T">>
    /\ CompleteTree(recs)
    /\ Len(tree.calls) = 3
    /\ tree.calls[2][2] = 1
    /\ tree.calls[3][2] = 1
    /\ tree.calls[2][1] > tree.calls[3][1]
    /\ NameLess(tree.nodes[tree.calls[2][1]].name, tree.nodes[tree.calls[3][1]].name)

\* --------------------------------------------------------------------- C29
\* The per-directory aggregates k of a set of nodes, added up, and their
\* maximum.
RECURSIVE SumOwn(_, _, _)
SumOwn(nodes, S, k) ==
    IF S = {} THEN 0
    ELSE LET c == CHOOSE x \in S : TRUE
         IN nodes[c].dir[k][1] + SumOwn(nodes, S \ {c}, k)

MaxOwn(nodes, S, k) ==
    CHOOSE m \in {nodes[c].dir[k][1] : c \in S} : \A c \in S : nodes[c].dir[k][1] <= m

\* C29: a walk_tree of the report, with or without a maximum depth, leaves
\* the root, every child map and every aggregate of the tree as they were;
\* and the subtree totals of a node called under a maximum depth are those
\* of the node and all the descendants build_tree gave it, whatever their
\* depth.
C29_WalkReadsOnly ==
    /\ [][pc' = "walked" \/ pc' = "reported" =>
             tree'.nodes = tree.nodes /\ tree'.root = tree.root]_vars
    /\ [](pc = "walked" /\ walkArgs.maxdepth # None =>
             \A d \in Called :
                LET under == Below(build_tree(recs).nodes, d)
                IN /\ \A k \in Fields \ {"mtime"} :
                         tree.nodes[d].tree[k] = Some(SumOwn(tree.nodes, under, k))
                   /\ tree.nodes[d].tree.mtime = Some(MaxOwn(tree.nodes, under, "mtime")))

\* A root without files whose child has a file was walked with maximum
\* depth 1: the only call is on the root, whose file_count_tree is 1.
C29_Witness ==
    /\ pc = "walked"
    /\ walkArgs.maxdepth = Some(1)
    /\ tree.calls = <<(<<QueryRoot, 0>>)>>
    /\ Kids(tree.nodes, QueryRoot) # {}
    /\ tree.nodes[QueryRoot].dir.file_count = Some(0)
    /\ tree.nodes[QueryRoot].tree.file_count = Some(1)

\* --------------------------------------------------------------------- C30
\* The keys of the Metadata rows of the store.
MetaKeys == {store.meta[i] : i \in 1..Len(store.meta)}

\* C30: the Metadata rows path and schema are in the store before the first
\* task is submitted and from then on; scrape_length and scrape_time are
\* written, in one step, only when the outstanding set is empty and every
\* task has been drained; rows are only added, each key once; and while a
\* scan is aborting and when it has raised, the store has no scrape_time.
C30_MetadataOnce ==
    /\ [](pc = "start" => store.meta = <<>> /\ futures = <<>>)
    /\ [](futures # <<>> => {"path", "schema"} \subseteq MetaKeys)
    /\ [](\A i, j \in 1..Len(store.meta) : store.meta[i] = store.meta[j] => i = j)
    /\ [](MetaKeys \cap {"scrape_length", "scrape_time"} # {} =>
             /\ store.meta = <<"path", "schema", "scrape_length", "scrape_time">>
             /\ waiting = {}
             /\ \A f \in 1..Len(futures) : f \in Drained)
    /\ [](pc \in {"aborting", "raised"} => "scrape_time" \notin MetaKeys)
    /\ [][pc' # "rescanned" =>
             /\ Len(store.meta) <= Len(store'.meta)
             /\ \A i \in 1..Len(store.meta) : store'.meta[i] = store.meta[i]
             /\ store'.meta # store.meta /\ pc # "start" =>
                   pc = "wait" /\ waiting = {} /\ pc' = "returned"]_vars

\* A scan has raised after it had committed a batch: the store has the
\* root's Directory row and the rows path and schema only.
C30_Witness ==
    /\ pc = "raised"
    /\ store.dirs # <<>>
    /\ store.meta = <<"path", "schema">>

\* --------------------------------------------------------------------- C31
\* C31: no Directory row of the committed store has the status NOT_SCANNED;
\* inside the transaction of a batch, every row has a terminal status after
\* each iteration of the loop over done, so a row gets its status in the
\* transaction that creates it; and when the result of a directory other than
\* the root is recorded, its parent is in the registry already.
C31_NoNotScanned ==
    /\ [](\A i \in 1..Len(store.dirs) : store.dirs[i].scan_status \in Terminal)
    /\ [](\A i \in 1..Len(txn.dirs) : txn.dirs[i].scan_status \in Terminal)
    /\ [][pc = "drain" /\ processed' # processed =>
             \A f \in processed' \ processed :
                \/ futures[f].path = RootPath
                \/ ParentPath(futures[f].path) \in DOMAIN dir_cache]_vars

\* A committed store with a row of each terminal status: the root, an
\* excluded subdirectory and a subdirectory that could not be read.
C31_Witness ==
    /\ pc = "wait"
    /\ Len(store.dirs) = 3
    /\ {store.dirs[i].scan_status : i \in 1..3} = Terminal

\* --------------------------------------------------------------------- C32
\* C32: whatever the patterns, the first task scan_path submits is the root;
\* every other task is for a path that matches no pattern, so the patterns
\* are applied before a subdirectory is scheduled; the root's Directory row
\* is never SKIPPED_EXCLUDE: once the root's result has been through the
\* loop, the row is SUCCESSFUL for a listing and SKIPPED_PERMISSION for a
\* denied root, and it is in the store when scan_path has returned.
C32_RootNotExcluded ==
    /\ pc # "start" => futures # <<>> /\ futures[1].path = RootPath
    /\ \A f \in 2..Len(futures) : ~Excluded(futures[f].path)
    /\ \A st \in {store, txn} : \A i \in IdsOf(st.dirs, RootPath) :
          st.dirs[i].scan_status \in {"SUCCESSFUL", "SKIPPED_PERMISSION"}
    /\ futures # <<>> /\ 1 \in Drained =>
          StatusOf(txn.dirs, RootPath) =
              IF 1 \in Listed THEN "SUCCESSFUL" ELSE "SKIPPED_PERMISSION"
    /\ pc = "returned" =>
          StatusOf(store.dirs, RootPath) \in {"SUCCESSFUL", "SKIPPED_PERMISSION"}

\* A scan whose patterns match the root's own path has returned: the root is
\* SUCCESSFUL and has a subdirectory row under it.
C32_Witness ==
    /\ pc = "returned"
    /\ Excluded(RootPath)
    /\ StatusOf(store.dirs, RootPath) = "SUCCESSFUL"
    /\ Len(store.dirs) >= 2

\* --------------------------------------------------------------------- C33
\* C33: filter_tree leaves the root, the set of nodes and every field of
\* every node but its child map as they were, and a child map only loses
\* entries; so the subtree totals of a node that is kept are still those of
\* the node and all the descendants build_tree gave it, the removed ones
\* included; and filter_tree with the same predicate on the filtered tree
\* changes no child map.
C33_FilterFrame ==
    /\ [][pc' = "filtered" =>
             /\ tree'.root = tree.root
             /\ DOMAIN tree'.nodes = DOMAIN tree.nodes
             /\ \A d \in DOMAIN tree.nodes :
                   /\ tree'.nodes[d] =
                         [tree.nodes[d] EXCEPT
                             !.subdirectories = tree'.nodes[d].subdirectories]
                   /\ \A n \in DOMAIN tree'.nodes[d].subdirectories :
                         /\ n \in DOMAIN tree.nodes[d].subdirectories
                         /\ tree'.nodes[d].subdirectories[n] =
                               tree.nodes[d].subdirectories[n]]_vars
    /\ [](pc = "filtered" =>
             /\ \A d \in Below(tree.nodes, QueryRoot) :
                   LET under == Below(build_tree(recs).nodes, d)
                   IN /\ \A k \in Fields \ {"mtime"} :
                            tree.nodes[d].tree[k] = Some(SumOwn(tree.nodes, under, k))
                      /\ tree.nodes[d].tree.mtime = Some(MaxOwn(tree.nodes, under, "mtime"))
                      /\ tree.nodes[d].path = build_tree(recs).nodes[d].path
             /\ filter_tree(tree, QueryRoot).error = ""
             /\ filter_tree(tree, QueryRoot).nodes = tree.nodes)

\* A root without files of its own was filtered and has lost a node
\* without files; it keeps the child whose file its file_count_tree counts.
C33_Witness ==
    /\ pc = "filtered"
    /\ extract = NoExtract
    /\ Cardinality(Below(build_tree(recs).nodes, tree.root)) > Cardinality(Below(tree.nodes, tree.root))
    /\ Cardinality(Below(tree.nodes, tree.root)) = 2
    /\ tree.nodes[tree.root].dir.file_count = Some(0)
    /\ tree.nodes[tree.root].tree.file_count = Some(1)

====
